---- MODULE Spec2Model ----
(***************************************************************************)
(* Orchestration state machine of the vibraphone MCP server: the session   *)
(* store (utils/session.py), the test and review circuit breakers          *)
(* (tools/quality_tools.py, tools/review_tools.py), the review verdict     *)
(* computation, the commit gate, the task lifecycle tools                  *)
(* (tools/worktree_tools.py, tools/beads_tools.py) and session recovery    *)
(* (tools/session_tools.py).                                               *)
(*                                                                         *)
(* One action per tool call.  The collaborators (task tracker br, git,   *)
(* the just runner, the reviewer service, the clock) are inputs drawn    *)
(* with \E; a collaborator failure that the code does not catch ends the   *)
(* call with status "raised" after the effects that preceded it.           *)
(***************************************************************************)
EXTENDS Integers, Sequences, FiniteSets, TLC

\* ------------------------------------------------------------------ bounds
MaxThreshold == 2      \* thresholds max_*_attempts range over 1..MaxThreshold
MaxOver == 1           \* run_tests calls modelled beyond max_test_attempts
MaxIssues == 2         \* longest reviewer array
MaxTicks == 1          \* clock ticks modelled
TickMinutes == 30      \* minutes per clock tick
MaxEntries == 2        \* most <task> elements of a plan document
MaxIssued == 3         \* issues the tracker holds at most before an import
MaxDeps == 2           \* longest dependencies list of a task

\* --------------------------------------------------------------- constants
STALE_SESSION_MINUTES == 30

None == "None"
Tasks == {"T1", "T2"}
Ids == Tasks \cup {"unknown"}
TaskStatus == {"open", "in_progress", "blocked", "closed"}
Diffs == {"", "d1", "d2"}
Severities == {"error", "warning"}

VARIABLES
    config,        \* quality_gate settings of vibraphone.yaml, fixed per run
    session_file,  \* TRUE iff .vibraphone/session.json exists
    state,         \* the SessionState stored in session.json
    tracker,       \* task id -> status, held by the external tracker
    index,         \* the staged diff (git diff --staged) of the working copy
    worktrees,     \* tasks whose ./worktrees/<id> directory exists
    branches,      \* task id -> what the repository holds of branch feat/<id>
    now,           \* UTC clock, minutes
    content,       \* a reviewer response handed to _perform_review on its own
    review_result, \* what _perform_review made of content
    changed,       \* the changes git status finds in the working copy
    stage_result,  \* what _stage_files returned and what it left staged
    phase_dir,     \* the plan documents of the phase directory
    beads,         \* the tasks and dependency edges the tracker holds
    import_result, \* the status of what import_gsd_plan returned last
    graph,         \* a task list handed to detect_cycles
    cycles,        \* what detect_cycles made of graph
    orphans,       \* what detect_orphans made of graph
    calls,         \* per task, the test runs and reviewer calls made so far
    reviewing,     \* the reviewer call in flight or last answered
    recovered      \* what recover_session returned last, and when

vars == <<config, session_file, state, tracker, index, worktrees, branches,
          now, content, review_result, changed, stage_result, phase_dir, beads,
          import_result, graph, cycles, orphans, calls, reviewing, recovered>>

\* ------------------------------------------------------------ session store
\* last_action_time as session.json holds it: absent (null), an ISO timestamp
\* with a UTC offset (what audit_log writes), an ISO timestamp without offset,
\* or a string that is no ISO timestamp. at is the instant, in minutes.
Time(kind, at) == [kind |-> kind, at |-> at]
NoTime == Time("none", 0)

SessionState ==
    [active_task |-> None, phase |-> None, worktree |-> None,
     last_action |-> None, last_action_result |-> None, last_action_time |-> NoTime,
     test_attempts |-> [t \in Ids |-> 0],
     review_attempts |-> [t \in Ids |-> 0],
     last_review_status |-> None, last_review_diff_hash |-> None,
     last_review_issues |-> <<>>]

\* load_session() or SessionState()
load_session == IF session_file THEN state ELSE SessionState

\* state.active_task or "unknown"
ActiveId(s) == IF s.active_task = None THEN "unknown" ELSE s.active_task

\* the count of every task raised along with the one asked for
increment_test_attempts_all(s, task_id) ==
    [s EXCEPT !.test_attempts = [t \in Ids |-> s.test_attempts[t] + 1]]

increment_test_attempts(s, task_id) ==
    [s EXCEPT !.test_attempts[task_id] = s.test_attempts[task_id] + 1]

increment_review_attempts(s, task_id) ==
    [s EXCEPT !.review_attempts[task_id] = s.review_attempts[task_id] + 1]

\* clear_task that also forgets the attempts counted for the task it clears
clear_task_forgetting(s) ==
    [s EXCEPT !.active_task = None, !.phase = None, !.worktree = None,
              !.last_review_status = None, !.last_review_diff_hash = None,
              !.last_review_issues = <<>>,
              !.test_attempts[ActiveId(s)] = 0,
              !.review_attempts[ActiveId(s)] = 0]

clear_task(s) ==
    [s EXCEPT !.active_task = None, !.phase = None, !.worktree = None,
              !.last_review_status = None, !.last_review_diff_hash = None,
              !.last_review_issues = <<>>]

audit_log(s, tool, status) ==
    [s EXCEPT !.last_action = tool, !.last_action_result = status,
              !.last_action_time = Time("aware", now)]

\* ----------------------------------------------------------------- outcomes
\* The result a call hands back: the fields of the returned dict the
\* properties read, the exception when the call raises instead, and the
\* collaborator I/O the call performed.
Result(tool, task_id, status, attempt, io) ==
    [tool |-> tool, task_id |-> task_id, status |-> status, exc |-> None,
     attempt |-> attempt, issues |-> <<>>, unchanged |-> FALSE,
     action |-> None, reason |-> None, worktree |-> None,
     last_action |-> None, attempt_counts |-> None, conflicted_files |-> {},
     next_steps |-> FALSE, warning |-> FALSE, io |-> io]

Raised(tool, task_id, exc, attempt, io) ==
    [Result(tool, task_id, "raised", attempt, io) EXCEPT !.exc = exc]

\* The outcome of a call that changes nothing but the session file.
Saved(result, s) ==
    [result |-> result, session_file |-> TRUE, state |-> s, tracker |-> tracker,
     index |-> index, worktrees |-> worktrees, branches |-> branches,
     appended |-> <<>>]

\* A record of .vibraphone/audit.log
Entry(tool, status) == [timestamp |-> now, tool |-> tool, status |-> status]

\* The outcome of a call that ends with audit_log(tool, inputs, status,
\* output): the session is saved with the three audit fields set and one
\* record is appended to the audit log.
Logged(result, s, tool, status) ==
    [Saved(result, audit_log(s, tool, status))
     EXCEPT !.appended = <<Entry(tool, status)>>]

\* The record written with open(AUDIT_LOG, "a") over the whole log
append_truncating(log, records) == records

\* open(AUDIT_LOG, "a"): the records of a call go behind the records the log
\* already holds.
append(log, records) == log \o records

\* The outcome of a call that leaves everything as it is.
Untouched(result) ==
    [result |-> result, session_file |-> session_file, state |-> state,
     tracker |-> tracker, index |-> index, worktrees |-> worktrees,
     branches |-> branches, appended |-> <<>>]

\* What a call with outcome o leaves behind.
Effects(o) ==
    /\ session_file' = o.session_file
    /\ state' = o.state
    /\ tracker' = o.tracker
    /\ index' = o.index
    /\ worktrees' = o.worktrees
    /\ branches' = o.branches
    /\ UNCHANGED <<config, now, content, review_result, changed, stage_result,
                   phase_dir, beads, import_result, graph, cycles, orphans>>

\* The step a call with outcome o makes.
Does(o) == Effects(o) /\ UNCHANGED <<calls, reviewing, recovered>>

\* No test command run and no reviewer call made yet.
NoCalls ==
    [test |-> [t \in Ids |-> 0], reviewer |-> [t \in Ids |-> 0],
     reviewed |-> None]

\* The collaborator I/O of a call, counted for the task it was made for: the
\* test command of run_tests and the reviewer call of request_code_review;
\* reviewed is the task for which the last verdict was stored (step 8).
Counted(made, result) ==
    [test |-> [made.test EXCEPT ![result.task_id] =
                   @ + (IF "test" \in result.io THEN 1 ELSE 0)],
     reviewer |-> [made.reviewer EXCEPT ![result.task_id] =
                       @ + (IF "reviewer" \in result.io THEN 1 ELSE 0)],
     reviewed |-> IF "reviewer" \in result.io /\ result.exc = None
                  THEN result.task_id
                  ELSE made.reviewed]

\* The step a call with outcome o makes, its test run or reviewer call counted.
DoesCounting(o) ==
    /\ Effects(o)
    /\ calls' = Counted(calls, o.result)
    /\ UNCHANGED <<reviewing, recovered>>

\* ------------------------------------------------------------ task tracker
\* br_update / br_close: a non-zero exit raises BrError; the update of an id
\* the tracker does not hold cannot succeed.
br_succeeds(task_id, br_ok) == br_ok /\ task_id \in Tasks

\* ---------------------------------------------------------------- run_tests
TestInputs == [br_ok : BOOLEAN, rc : {0, 1}]

\* run_tests with the breaker tripping one attempt early
run_tests_trips_early(in) ==
    LET s0 == load_session
        task_id == ActiveId(s0)
        s1 == increment_test_attempts(s0, task_id)
        attempt == s1.test_attempts[task_id]
        status == IF in.rc = 0 THEN "pass" ELSE "fail"
    IN  IF attempt >= config.max_test_attempts
        THEN IF br_succeeds(task_id, in.br_ok)
             THEN [Logged(Result("run_tests", task_id, "ESCALATED", attempt,
                                {"br_update"}),
                         s1, "run_tests", "escalated")
                   EXCEPT !.tracker = [tracker EXCEPT ![task_id] = "blocked"]]
             ELSE Saved(Raised("run_tests", task_id, "BrError", attempt,
                               {"br_update"}), s1)
        ELSE Logged(Result("run_tests", task_id, status, attempt, {"test"}),
                   s1, "run_tests", status)

run_tests(in) ==
    LET s0 == load_session
        task_id == ActiveId(s0)
        s1 == increment_test_attempts(s0, task_id)
        attempt == s1.test_attempts[task_id]
        max_attempts == config.max_test_attempts
        status == IF in.rc = 0 THEN "pass" ELSE "fail"
    IN  IF attempt > max_attempts
        THEN IF br_succeeds(task_id, in.br_ok)
             THEN [Logged(Result("run_tests", task_id, "ESCALATED", attempt,
                                {"br_update"}),
                         s1, "run_tests", "escalated")
                   EXCEPT !.tracker = [tracker EXCEPT ![task_id] = "blocked"]]
             ELSE Saved(Raised("run_tests", task_id, "BrError", attempt,
                               {"br_update"}), s1)
        ELSE Logged(Result("run_tests", task_id, status, attempt, {"test"}),
                   s1, "run_tests", status)

\* run_tests is called at most MaxOver times past the threshold
RunTests ==
    \E in \in TestInputs :
        /\ load_session.test_attempts[ActiveId(load_session)]
               < config.max_test_attempts + MaxOver
        /\ Does(run_tests(in))

\* run_tests while a task is active, its test command counted
RunTestsCounting ==
    \E in \in TestInputs :
        /\ load_session.active_task # None
        /\ load_session.test_attempts[ActiveId(load_session)]
               < config.max_test_attempts + MaxOver
        /\ DoesCounting(run_tests(in))

\* run_tests while a task is active
RunTestsOnTask == load_session.active_task # None /\ RunTests

\* ---------------------------------------------------------------------- git
\* hashlib.sha256 of the staged diff: distinct diffs have distinct digests.
Sha256(d) == CASE d = "" -> "e3b0c442" [] d = "d1" -> "5d1f0a3c" [] OTHER -> "9c2e77b1"

\* _stage_files: paths = a non-empty path list was passed, safe = some
\* candidate passes the deny-list, add_ok = git add exits 0.
_stage_files(paths, stage_all, safe, add_ok) ==
    IF paths /\ stage_all THEN "error"
    ELSE IF ~paths /\ ~stage_all THEN "error"
    ELSE IF ~safe THEN "nothing_to_stage"
    ELSE IF ~add_ok THEN "error"
    ELSE "staged"

\* ------------------------------------------------------------------ staging
\* A path component as PurePosixPath sees it: name = stem + ext, where ext
\* is the suffix (the part from the last dot on, empty when the name has no
\* dot or only a leading one).
N(stem, ext) == [stem |-> stem, ext |-> ext]

_DANGEROUS_FILENAMES ==
    {N(".env", ""), N(".env", ".local"), N(".env", ".production"),
     N(".env", ".staging"), N("credentials", ".json"),
     N("service-account", ".json"), N("secrets", ".json"), N("id_rsa", ""),
     N("id_ed25519", "")}
_DANGEROUS_EXTENSIONS == {".pem", ".key", ".p12", ".pfx", ".jks", ".keystore"}
_DANGEROUS_PATH_PARTS == {N(".ssh", ""), N(".gnupg", "")}

\* PurePosixPath(path): parts, name, suffix
parts(path) == {path[i] : i \in 1..Len(path)}
name(path) == path[Len(path)]
suffix(path) == name(path).ext

_is_dangerous(path) ==
    IF name(path) \in _DANGEROUS_FILENAMES THEN TRUE
    ELSE IF suffix(path) \in _DANGEROUS_EXTENSIONS THEN TRUE
    ELSE _DANGEROUS_PATH_PARTS \cap parts(path) # {}

\* The files of the working copy that may have changed, and the directories
\* that may be new as a whole.
AppPy == <<N("app", ".py")>>
DotEnv == <<N(".env", "")>>
ServerPem == <<N("certs", ""), N("server", ".pem")>>
SshConfig == <<N(".ssh", ""), N("config", "")>>
NewEnv == <<N("newdir", ""), N(".env", "")>>
NewNotes == <<N("newdir", ""), N("notes", ".txt")>>
Files == {AppPy, DotEnv, ServerPem, SshConfig, NewEnv, NewNotes}
NewDir == <<N("newdir", "")>>
SshDir == <<N(".ssh", "")>>
Dirs == {NewDir, SshDir}

\* path lies at or beneath dir
Beneath(dir, path) ==
    Len(dir) <= Len(path) /\ SubSeq(path, 1, Len(dir)) = dir

\* The working copy: the changed files git does not ignore, and the
\* directories among them that hold no tracked file.
Trees ==
    {tree \in [files : SUBSET Files, untracked : SUBSET Dirs] :
        \A d \in tree.untracked : \E f \in tree.files : Beneath(d, f)}
NoChanges == [files |-> {}, untracked |-> {}]

\* A set as a list, in some order.
RECURSIVE listing(_)
listing(set) ==
    IF set = {} THEN <<>>
    ELSE LET x == CHOOSE x \in set : TRUE IN <<x>> \o listing(set \ {x})

\* git status --porcelain: one line per changed file, and one line
\* "?? dir/" for a directory that holds no tracked file.
Row(xy, path, slash) == [xy |-> xy, path |-> path, slash |-> slash]
git_status(tree) ==
    listing({Row("??", d, TRUE) : d \in tree.untracked}
              \cup {Row(" M", f, FALSE) :
                        f \in {f \in tree.files :
                                  \A d \in tree.untracked : ~Beneath(d, f)}})

\* _parse_porcelain: the text behind the two status letters; PurePosixPath
\* drops the trailing slash of a directory entry.
RECURSIVE _parse_porcelain(_)
_parse_porcelain(lines) ==
    IF lines = <<>> THEN <<>>
    ELSE <<Head(lines).path>> \o _parse_porcelain(Tail(lines))

\* The loop over the candidates: the dangerous ones make the warnings, the
\* others the safe list, both in order.
RECURSIVE sorted_out(_, _)
sorted_out(candidates, dangerous) ==
    IF candidates = <<>> THEN <<>>
    ELSE (IF _is_dangerous(Head(candidates)) = dangerous
          THEN <<Head(candidates)>> ELSE <<>>)
           \o sorted_out(Tail(candidates), dangerous)

\* git add -- <safe>: every changed file at or beneath a path given is
\* staged.
git_add(tree, safe) ==
    {f \in tree.files : \E i \in 1..Len(safe) : Beneath(safe[i], f)}

\* _stage_files with its lists: staged and warnings as returned, files, the
\* changed files the call left staged, and the candidates and the stage_all
\* flag of the request.
NoStage == [status |-> None, staged |-> <<>>, warnings |-> <<>>, files |-> {},
            candidates |-> <<>>, stage_all |-> FALSE]
stage_files(paths, stage_all, tree, add_ok) ==
    LET candidates == IF stage_all THEN _parse_porcelain(git_status(tree))
                      ELSE paths
        warnings == sorted_out(candidates, TRUE)
        safe == sorted_out(candidates, FALSE)
        status == _stage_files(paths # <<>>, stage_all, safe # <<>>, add_ok)
    IN  CASE status = "staged" ->
                 [status |-> status, staged |-> safe, warnings |-> warnings,
                  files |-> git_add(tree, safe), candidates |-> candidates,
                  stage_all |-> stage_all]
          [] status = "nothing_to_stage" ->
                 [status |-> status, staged |-> <<>>, warnings |-> warnings,
                  files |-> {}, candidates |-> candidates,
                  stage_all |-> stage_all]
          [] paths # <<>> /\ stage_all ->
                 [NoStage EXCEPT !.status = "error", !.stage_all = stage_all]
          [] paths = <<>> /\ ~stage_all ->
                 [NoStage EXCEPT !.status = "error", !.stage_all = stage_all]
          [] OTHER ->
                 \* git add exited non-zero
                 [status |-> "error", staged |-> <<>>, warnings |-> warnings,
                  files |-> {}, candidates |-> candidates,
                  stage_all |-> stage_all]

\* The path lists a staging request may carry.
PathLists ==
    {<<>>, <<AppPy>>, <<DotEnv>>, <<DotEnv, AppPy>>, <<ServerPem>>,
     <<SshConfig>>, <<NewEnv>>, <<NewDir>>, <<NewNotes, NewEnv>>}

\* Step 3 of request_code_review: the files asked for are staged.
StageFiles ==
    /\ \E paths \in PathLists, stage_all \in BOOLEAN, add_ok \in BOOLEAN :
          stage_result' = stage_files(paths, stage_all, changed, add_ok)
    /\ UNCHANGED <<config, session_file, state, tracker, index, worktrees,
                   branches, now, content, review_result, changed, phase_dir,
                   beads, import_result, graph, cycles, orphans, calls,
                   reviewing, recovered>>

\* ------------------------------------------------------------ plan import
\* The tracker as import_gsd_plan meets it: the issues br list shows, in the
\* order of their creation, and the dependency edges <<blocked, blocker>>
\* added with br dep add.
NoBeads == [items |-> <<>>, deps |-> {}]

\* Plan documents <phase>-<plan>-PLAN.md of one phase: the plan id, the
\* depends_on list of the header and the <task> elements, each with the
\* text of its <labels> child or None when it has none.
PlanIds == 1..2
TaskEl(labels) == [labels |-> labels]
TaskEls == {TaskEl(None), TaskEl("backend")}
TaskLists == UNION {[1..n -> TaskEls] : n \in 0..MaxEntries}
\* A header may name any plan of the phase as a dependency, its own plan
\* included.
PlanDocs == [id : PlanIds, depends_on : SUBSET PlanIds, tasks : TaskLists]

\* A label of an issue: the marker plan:<id>, or other text.
PlanLabel(plan_id) == [plan |-> TRUE, text |-> plan_id]
OwnLabel(text) == [plan |-> FALSE, text |-> text]

\* _create_beads_task: the labels of the element replace the plan marker.
labels_of(plan_id, task_data) ==
    IF task_data.labels = None THEN {PlanLabel(plan_id)}
    ELSE {OwnLabel(task_data.labels)}

\* The issue br create makes of element task_idx of a plan; the title
\* carries the plan id.
Issue(issue_id, plan_id, task_idx, task_data) ==
    [id |-> issue_id, plan_id |-> plan_id, task_index |-> task_idx,
     labels |-> labels_of(plan_id, task_data)]

\* _existing_plan_ids: the ids behind the plan: labels of the listed issues
_existing_plan_ids(items) ==
    {l.text : l \in {l \in UNION {items[i].labels : i \in 1..Len(items)} : l.plan}}

\* [x for x in list if keep[x]] for plan documents, keep a set of plan ids
RECURSIVE plans_in(_, _)
plans_in(plan_files, keep) ==
    IF plan_files = <<>> THEN <<>>
    ELSE (IF Head(plan_files).id \in keep THEN <<Head(plan_files)>> ELSE <<>>)
           \o plans_in(Tail(plan_files), keep)

\* _parse_and_create_tasks: the issues created, plan by plan and element by
\* element, the tracker handing out the ids in sequence from next_id on.
RECURSIVE plan_issues(_, _, _)
plan_issues(plan, task_idx, next_id) ==
    IF task_idx > Len(plan.tasks) THEN <<>>
    ELSE <<Issue(next_id, plan.id, task_idx - 1, plan.tasks[task_idx])>>
           \o plan_issues(plan, task_idx + 1, next_id + 1)

RECURSIVE _parse_and_create_tasks(_, _)
_parse_and_create_tasks(plan_files, next_id) ==
    IF plan_files = <<>> THEN <<>>
    ELSE plan_issues(Head(plan_files), 1, next_id)
           \o _parse_and_create_tasks(Tail(plan_files),
                                      next_id + Len(Head(plan_files).tasks))

\* plan_tasks[plan_id]: the ids of the issues created for a plan, in order
RECURSIVE issue_ids(_, _)
issue_ids(created, plan_id) ==
    IF created = <<>> THEN <<>>
    ELSE (IF Head(created).plan_id = plan_id THEN <<Head(created).id>> ELSE <<>>)
           \o issue_ids(Tail(created), plan_id)

Dep(blocked, blocker, type) == [blocked |-> blocked, blocker |-> blocker, type |-> type]

\* the intra-plan edges pointing the other way
RECURSIVE intra_plan_reversed(_)
intra_plan_reversed(task_ids) ==
    IF Len(task_ids) < 2 THEN <<>>
    ELSE <<Dep(task_ids[1], task_ids[2], "intra-plan")>>
           \o intra_plan_reversed(Tail(task_ids))

\* Intra-plan: task N+1 blocked by task N
RECURSIVE intra_plan(_)
intra_plan(task_ids) ==
    IF Len(task_ids) < 2 THEN <<>>
    ELSE <<Dep(task_ids[2], task_ids[1], "intra-plan")>> \o intra_plan(Tail(task_ids))

\* the inter-plan edges towards the other plans only
RECURSIVE inter_plan_to_others(_, _, _)
inter_plan_to_others(first_task, dep_plans, all_plans_map) ==
    IF dep_plans = <<>> THEN <<>>
    ELSE LET dep_task_ids == all_plans_map[Head(dep_plans)]
         IN  (IF dep_task_ids # <<>> /\ dep_task_ids[1] # first_task
              THEN <<Dep(first_task, dep_task_ids[Len(dep_task_ids)], "inter-plan")>>
              ELSE <<>>)
               \o inter_plan_to_others(first_task, Tail(dep_plans), all_plans_map)

\* Inter-plan: the first task blocked by the last task of each plan of
\* dep_plans that all_plans_map knows with tasks. all_plans_map[id] is the
\* list of task ids of plan id, empty for a plan it does not hold.
RECURSIVE inter_plan(_, _, _)
inter_plan(first_task, dep_plans, all_plans_map) ==
    IF dep_plans = <<>> THEN <<>>
    ELSE LET dep_task_ids == all_plans_map[Head(dep_plans)]
         IN  (IF dep_task_ids # <<>>
              THEN <<Dep(first_task, dep_task_ids[Len(dep_task_ids)], "inter-plan")>>
              ELSE <<>>)
               \o inter_plan(first_task, Tail(dep_plans), all_plans_map)

\* _setup_plan_dependencies over the plans of plan_tasks, in the order of
\* their creation
RECURSIVE _setup_plan_dependencies(_, _, _)
_setup_plan_dependencies(plans, plan_tasks, all_plans_map) ==
    IF plans = <<>> THEN <<>>
    ELSE LET task_ids == plan_tasks[Head(plans).id]
         IN  intra_plan(task_ids)
               \o (IF task_ids # <<>>
                    THEN inter_plan(task_ids[1], listing(Head(plans).depends_on),
                                    all_plans_map)
                    ELSE <<>>)
               \o _setup_plan_dependencies(Tail(plans), plan_tasks, all_plans_map)

\* What the collaborators answer during one import_gsd_plan call:
\* components (vibraphone.yaml configures some) and fails, the br command
\* whose first call exits non-zero, if any.
ImportInputs ==
    [components : BOOLEAN, fails : {"none", "list", "create", "dep_add", "sync"}]

NoImport ==
    [status |-> None, exc |-> None, tasks_created |-> <<>>,
     dependencies |-> <<>>, skipped_plans |-> <<>>]

\* the plan ids of a list of plan documents
RECURSIVE plan_ids(_)
plan_ids(plan_files) ==
    IF plan_files = <<>> THEN <<>>
    ELSE <<Head(plan_files).id>> \o plan_ids(Tail(plan_files))

\* import_gsd_plan for the phase whose directory holds the documents of
\* phase_dir. The outcome holds the result, the tracker as the call leaves
\* it, and whether the call reached its audit step.
import_gsd_plan(in) ==
    LET Ret == NoImport
        plan_files == phase_dir
        existing == _existing_plan_ids(beads.items)
        skipped == plan_ids(plans_in(plan_files, existing))
        todo == plans_in(plan_files, PlanIds \ existing)
        created == _parse_and_create_tasks(todo, Len(beads.items) + 1)
        plan_tasks == [p \in PlanIds |-> issue_ids(created, p)]
        with_tasks == plans_in(todo, {p \in PlanIds : plan_tasks[p] # <<>>})
        dependencies == _setup_plan_dependencies(with_tasks, plan_tasks, plan_tasks)
        \* br list, br create..., br dep add..., br sync, up to the call
        \* that fails
        made == IF in.fails = "create" THEN <<>> ELSE created
        added == IF in.fails \in {"create", "dep_add"} THEN <<>> ELSE dependencies
        raises == \/ in.fails = "create" /\ created # <<>>
                  \/ in.fails = "dep_add" /\ dependencies # <<>>
                  \/ in.fails = "sync"
        left == [items |-> beads.items \o made,
                 deps |-> beads.deps
                            \cup {<<added[i].blocked, added[i].blocker>> :
                                      i \in 1..Len(added)}]
    IN  IF ~in.components
        THEN [result |-> [Ret EXCEPT !.status = "error"], beads |-> beads,
              audited |-> FALSE]
        ELSE IF plan_files = <<>>
        THEN [result |-> [Ret EXCEPT !.status = "error"], beads |-> beads,
              audited |-> FALSE]
        ELSE IF in.fails = "list"
        THEN [result |-> [Ret EXCEPT !.status = "raised", !.exc = "BrError"],
              beads |-> beads, audited |-> FALSE]
        ELSE IF todo = <<>>
        THEN [result |-> [Ret EXCEPT !.status = "already_imported",
                                     !.skipped_plans = skipped],
              beads |-> beads, audited |-> FALSE]
        ELSE IF raises
        THEN [result |-> [Ret EXCEPT !.status = "raised", !.exc = "BrError"],
              beads |-> left, audited |-> FALSE]
        ELSE [result |-> [Ret EXCEPT !.status = "imported",
                                     !.tasks_created = created,
                                     !.dependencies = dependencies,
                                     !.skipped_plans = skipped],
              beads |-> left, audited |-> TRUE]

ImportGsdPlan ==
    /\ Len(beads.items) <= MaxIssued
    /\ \E in \in ImportInputs :
          LET o == import_gsd_plan(in)
          IN  /\ beads' = o.beads
              /\ import_result' = o.result.status
              /\ session_file' = (session_file \/ o.audited)
              /\ state' = IF o.audited
                          THEN audit_log(load_session, "import_gsd_plan", "ok")
                          ELSE state
    /\ UNCHANGED <<config, tracker, index, worktrees, branches, now, content,
                   review_result, changed, stage_result, phase_dir, graph,
                   cycles, orphans, calls, reviewing, recovered>>

\* A plan document is written into the phase directory; the directory is
\* read in the order of the file names.
PlanWritten ==
    /\ \E doc \in PlanDocs :
          /\ \A i \in 1..Len(phase_dir) : phase_dir[i].id # doc.id
          /\ phase_dir' = plans_in(phase_dir, {p \in PlanIds : p < doc.id})
                            \o <<doc>>
                            \o plans_in(phase_dir, {p \in PlanIds : p > doc.id})
    /\ UNCHANGED <<config, session_file, state, tracker, index, worktrees,
                   branches, now, content, review_result, changed,
                   stage_result, beads, import_result, graph, cycles, orphans,
                   calls, reviewing, recovered>>

\* ------------------------------------------------------------ detect_cycles
\* Task lists: up to three tasks with the ids A, B, C in this order, each
\* with a dependencies list over these ids and Z, an id no task has.
NodeIds == <<"A", "B", "C">>
DepIds == {"A", "B", "C", "Z"}
DepLists ==
    {deps \in UNION {[1..n -> DepIds] : n \in 0..MaxDeps} :
        \A i, j \in 1..Len(deps) : deps[i] = deps[j] => i = j}
Graphs(n) ==
    {[i \in 1..n |-> [id |-> NodeIds[i], dependencies |-> deps[i]]] :
        deps \in [1..n -> DepLists]}

\* adj[tid] = deps: a later task of the same id replaces an earlier one.
adj(tasks) ==
    [tid \in {tasks[i].id : i \in 1..Len(tasks)} |->
        LET last == CHOOSE i \in 1..Len(tasks) :
                        /\ tasks[i].id = tid
                        /\ \A j \in (i + 1)..Len(tasks) : tasks[j].id # tid
        IN  tasks[last].dependencies]

\* list(adj): the ids in the order of their first task
RECURSIVE keys(_, _)
keys(tasks, seen) ==
    IF tasks = <<>> THEN <<>>
    ELSE (IF Head(tasks).id \in seen THEN <<>> ELSE <<Head(tasks).id>>)
           \o keys(Tail(tasks), seen \cup {Head(tasks).id})

\* path.index(neighbour)
index_of(path, x) == CHOOSE i \in 1..Len(path) :
                        path[i] = x /\ \A j \in 1..(i - 1) : path[j] # x

\* a neighbour closes a cycle only when it is not the node being scanned
closes_cycle_elsewhere(st, neighbour) ==
    st.color[neighbour] = "GRAY" /\ neighbour # st.path[Len(st.path)]

\* color[neighbour] == GRAY: the neighbour is on the path being walked
closes_cycle(st, neighbour) == st.color[neighbour] = "GRAY"

\* dfs(node) on the walk st = [color, path, cycles], and its loop over the
\* neighbours still to scan.
RECURSIVE dfs(_, _, _)
RECURSIVE scan(_, _, _)
dfs(a, node, st) ==
    LET entered == [st EXCEPT !.color[node] = "GRAY", !.path = Append(@, node)]
        scanned == scan(a, a[node], entered)
    IN  [scanned EXCEPT !.path = SubSeq(@, 1, Len(@) - 1),
                        !.color[node] = "BLACK"]
scan(a, neighbours, st) ==
    IF neighbours = <<>> THEN st
    ELSE LET neighbour == Head(neighbours)
         IN  IF neighbour \notin DOMAIN st.color
             THEN scan(a, Tail(neighbours), st)
             ELSE IF closes_cycle(st, neighbour)
             THEN scan(a, Tail(neighbours),
                       [st EXCEPT !.cycles =
                            Append(@, SubSeq(st.path, index_of(st.path, neighbour),
                                             Len(st.path)) \o <<neighbour>>)])
             ELSE IF st.color[neighbour] = "WHITE"
             THEN scan(a, Tail(neighbours), dfs(a, neighbour, st))
             ELSE scan(a, Tail(neighbours), st)

\* for node in list(adj): if color[node] == WHITE: dfs(node)
RECURSIVE walk(_, _, _)
walk(a, nodes, st) ==
    IF nodes = <<>> THEN st
    ELSE walk(a, Tail(nodes),
              IF st.color[Head(nodes)] = "WHITE" THEN dfs(a, Head(nodes), st)
              ELSE st)

detect_cycles(tasks) ==
    walk(adj(tasks), keys(tasks, {}),
         [color |-> [tid \in DOMAIN adj(tasks) |-> "WHITE"], path |-> <<>>,
          cycles |-> <<>>]).cycles

\* cycles before detect_cycles has returned, and once it has
NotWalked == [returned |-> FALSE, found |-> <<>>]
Found(list) == [returned |-> TRUE, found |-> list]

DetectCycles ==
    /\ cycles = NotWalked
    /\ cycles' = Found(detect_cycles(graph))
    /\ UNCHANGED <<config, session_file, state, tracker, index, worktrees,
                   branches, now, content, review_result, changed,
                   stage_result, phase_dir, beads, import_result, graph,
                   orphans, calls, reviewing, recovered>>

\* ----------------------------------------------------------- detect_orphans
\* known_ids = {str(t.get("id", "")) for t in tasks}
known_ids(tasks) == {tasks[i].id : i \in 1..Len(tasks)}

Orphan(tid, dep) == [task_id |-> tid, missing_dep |-> dep]

\* only the first missing dependency of a task is reported
RECURSIVE orphans_of_first(_, _, _)
orphans_of_first(tid, deps, known) ==
    IF deps = <<>> THEN <<>>
    ELSE IF Head(deps) \notin known THEN <<Orphan(tid, Head(deps))>>
    ELSE orphans_of_first(tid, Tail(deps), known)

\* the generator handed to orphans.extend for one task
RECURSIVE orphans_of(_, _, _)
orphans_of(tid, deps, known) ==
    IF deps = <<>> THEN <<>>
    ELSE (IF Head(deps) \notin known THEN <<Orphan(tid, Head(deps))>> ELSE <<>>)
           \o orphans_of(tid, Tail(deps), known)

RECURSIVE extend_all(_, _)
extend_all(tasks, known) ==
    IF tasks = <<>> THEN <<>>
    ELSE orphans_of(Head(tasks).id, Head(tasks).dependencies, known)
           \o extend_all(Tail(tasks), known)

detect_orphans(tasks) == extend_all(tasks, known_ids(tasks))

DetectOrphans ==
    /\ ~orphans.returned
    /\ orphans' = Found(detect_orphans(graph))
    /\ UNCHANGED <<config, session_file, state, tracker, index, worktrees,
                   branches, now, content, review_result, changed,
                   stage_result, phase_dir, beads, import_result, graph,
                   cycles, calls, reviewing, recovered>>

\* ----------------------------------------------------------------- reviewer
\* An element of the reviewer's JSON array: an object (obj) with the issue
\* fields, or a JSON value that is not an object.
Elem(obj, rule, file, line, severity) ==
    [obj |-> obj, rule |-> rule, file |-> file, line |-> line, severity |-> severity]
ErrIssue == Elem(TRUE, "r1", "f1", 10, "error")
WarnIssue == Elem(TRUE, "r2", "f1", 11, "warning")
InfoIssue == Elem(TRUE, "r3", "f2", 12, "info")
NotAnObject == Elem(FALSE, "", "", 0, "")
Elements == {ErrIssue, WarnIssue, InfoIssue, NotAnObject}
Arrays == UNION {[1..n -> Elements] : n \in 0..MaxIssues}

\* The payload of the response: not JSON, a JSON value that is not an array,
\* or a JSON array.
Body(kind, items) == [kind |-> kind, items |-> items]
Bodies == {Body("notjson", <<>>), Body("object", <<>>)}
              \cup {Body("array", a) : a \in Arrays}

\* The response text, line by line: a markdown code fence line (three
\* backticks, with or without a language tag), a line of payload, or a blank
\* line.
Line(t, b) == [t |-> t, body |-> b]
FenceOpen == Line("fence_json", Body("", <<>>))
FenceClose == Line("fence", Body("", <<>>))
Blank == Line("blank", Body("", <<>>))
Responses ==
    {<<>>, <<Blank>>}
      \cup UNION {{<<Line("text", b)>>,
                   <<Blank, Line("text", b), Blank>>,
                   <<FenceOpen, Line("text", b), FenceClose>>,
                   <<Blank, FenceOpen, Line("text", b), FenceClose, Blank>>,
                   <<FenceOpen, Line("text", b)>>,
                   <<Line("text", b), FenceClose>>} : b \in Bodies}

\* The responses the reviewer gives inside request_code_review.
ReviewerOutputs ==
    {<<Line("text", Body("notjson", <<>>))>>,
     <<FenceOpen, Line("text", Body("array", <<>>)), FenceClose>>,
     <<Line("text", Body("array", <<ErrIssue>>))>>,
     <<Line("text", Body("array", <<WarnIssue>>))>>,
     <<Line("text", Body("array", <<NotAnObject>>))>>}

\* str.strip(): the text without its leading and trailing blank lines.
RECURSIVE strip(_)
strip(text) ==
    IF text = <<>> THEN text
    ELSE IF Head(text).t = "blank" THEN strip(Tail(text))
    ELSE IF text[Len(text)].t = "blank" THEN strip(SubSeq(text, 1, Len(text) - 1))
    ELSE text

\* A text that starts with a fence: drop the opening fence, and the closing fence
\* when the last line is one.
strip_fences(text) ==
    IF text # <<>> /\ text[1].t \in {"fence_json", "fence"}
    THEN LET lines == Tail(text)
         IN  IF lines # <<>> /\ lines[Len(lines)].t = "fence"
             THEN SubSeq(lines, 1, Len(lines) - 1)
             ELSE lines
    ELSE text

\* json.loads: succeeds on exactly one JSON document.
json_loads(json_text) ==
    IF Len(json_text) = 1 /\ json_text[1].t = "text"
          /\ json_text[1].body.kind # "notjson"
    THEN [ok |-> TRUE, kind |-> json_text[1].body.kind,
          items |-> json_text[1].body.items]
    ELSE [ok |-> FALSE, kind |-> "", items |-> <<>>]

\* any(issue.get("severity") in dominated_severities for issue in issues):
\* left to right, stopping at the first blocking issue; .get on a value that
\* is not an object raises AttributeError.
RECURSIVE has_blocking(_, _)
has_blocking(issues, dominated_severities) ==
    IF issues = <<>> THEN "False"
    ELSE IF ~Head(issues).obj THEN "AttributeError"
    ELSE IF Head(issues).severity \in dominated_severities THEN "True"
    ELSE has_blocking(Tail(issues), dominated_severities)

\* a threshold under which a warning always blocks
dominated_with_warning(threshold) == {"error", "warning"}

dominated(threshold) ==
    IF threshold = "warning" THEN {"error", "warning"} ELSE {"error"}

NoReview == [status |-> None, issues |-> <<>>, raw_response |-> <<>>, exc |-> None]

\* text is message.content of the reviewer's completion
_perform_review(text, threshold) ==
    LET raw_text == strip(text)
        parsed == json_loads(strip_fences(raw_text))
    IN  IF ~parsed.ok \/ parsed.kind # "array"
        THEN [status |-> "ESCALATED", issues |-> <<>>, raw_response |-> raw_text,
              exc |-> None]
        ELSE LET blocking == has_blocking(parsed.items, dominated(threshold))
             IN  IF blocking = "AttributeError"
                 THEN [status |-> "raised", issues |-> <<>>,
                       raw_response |-> raw_text, exc |-> "AttributeError"]
                 ELSE [status |-> IF blocking = "True" THEN "REJECTED" ELSE "APPROVED",
                       issues |-> parsed.items, raw_response |-> raw_text,
                       exc |-> None]

\* the breaker tripping only above the threshold
_check_circuit_breaker_above(s, task_id) ==
    s.review_attempts[task_id] > config.max_review_attempts

_check_circuit_breaker(s, task_id) ==
    s.review_attempts[task_id] >= config.max_review_attempts

\* status.lower()
lower(status) == CASE status = "APPROVED" -> "approved"
                   [] status = "REJECTED" -> "rejected"
                   [] OTHER -> "escalated"


\* ------------------------------------------------------ request_code_review
\* What the collaborators answer during one request_code_review call:
\* br_ok (br update exits 0), api_key (REVIEWER_API_KEY is set), the
\* arguments and the environment of _stage_files, diff (the staged diff once
\* staging is done), assets (constitution and prompt files exist), net_ok
\* (the reviewer call returns) and response (what it returns).
Happy ==
    [br_ok |-> TRUE, api_key |-> TRUE, paths |-> FALSE, stage_all |-> TRUE,
     safe |-> TRUE, add_ok |-> TRUE, diff |-> "d1", assets |-> TRUE,
     net_ok |-> TRUE, response |-> <<>>]

ReviewInputs ==
    {[Happy EXCEPT !.br_ok = FALSE], [Happy EXCEPT !.api_key = FALSE],
     [Happy EXCEPT !.stage_all = FALSE], [Happy EXCEPT !.paths = TRUE],
     [Happy EXCEPT !.safe = FALSE], [Happy EXCEPT !.add_ok = FALSE]}
      \cup {[Happy EXCEPT !.diff = d, !.assets = FALSE] : d \in Diffs}
      \cup {[Happy EXCEPT !.diff = d, !.net_ok = FALSE] : d \in Diffs}
      \cup {[Happy EXCEPT !.diff = d, !.response = r] :
                d \in Diffs, r \in ReviewerOutputs}
      \cup {[Happy EXCEPT !.paths = TRUE, !.stage_all = FALSE]}

\* The collaborators' answers in the runs that follow both circuit breakers
\* through the task lifecycle: one diff, a reviewer that approves or answers
\* with text that is not JSON.
BreakerReviewInputs ==
    {[Happy EXCEPT !.br_ok = FALSE], [Happy EXCEPT !.api_key = FALSE]}
      \cup {[Happy EXCEPT !.response = r] :
                r \in {<<Line("text", Body("notjson", <<>>))>>,
                       <<FenceOpen, Line("text", Body("array", <<>>)), FenceClose>>}}

\* 6. the staged diff is the one the last review saw
unchanged_diff(s, current_diff_hash) ==
    /\ s.last_review_diff_hash # None
    /\ s.last_review_diff_hash = current_diff_hash

\* an unchanged result that reports REJECTED whatever the stored verdict
_build_unchanged_result_rejecting(s, task_id, current_attempts) ==
    [Result("request_code_review", task_id, "REJECTED", current_attempts,
            {"stage", "diff"})
     EXCEPT !.issues = s.last_review_issues, !.unchanged = TRUE]

_build_unchanged_result(s, task_id, current_attempts) ==
    [Result("request_code_review", task_id,
            IF s.last_review_status # None THEN s.last_review_status ELSE "REJECTED",
            current_attempts, {"stage", "diff"})
     EXCEPT !.issues = s.last_review_issues, !.unchanged = TRUE]

\* an error result that consumes a review attempt
_error_result_counted(s, task_id, reason, io, ix) ==
    [Logged([Result("request_code_review", task_id, "error", 0, io)
            EXCEPT !.reason = reason],
           increment_review_attempts(s, task_id),
                     "request_code_review", "error")
     EXCEPT !.index = ix]

\* _error_result, followed by the audit step every error return makes
_error_result(s, task_id, reason, io, ix) ==
    [Logged([Result("request_code_review", task_id, "error", 0, io)
            EXCEPT !.reason = reason],
           s, "request_code_review", "error")
     EXCEPT !.index = ix]

request_code_review(in) ==
    LET s0 == load_session
        task_id == ActiveId(s0)
        current_attempts == s0.review_attempts[task_id]
        staged == _stage_files(in.paths, in.stage_all, in.safe, in.add_ok)
        \* 7. the attempt is counted, then the reviewer is called
        s1 == increment_review_attempts(s0, task_id)
        attempt == s1.review_attempts[task_id]
        io == {"stage", "diff", "reviewer"}
        review == _perform_review(in.response, config.review_severity_threshold)
        \* 8. the verdict is stored
        s2 == [s1 EXCEPT !.last_review_status = review.status,
                         !.last_review_diff_hash = Sha256(in.diff),
                         !.last_review_issues = review.issues]
    IN  IF _check_circuit_breaker(s0, task_id)
        THEN IF br_succeeds(task_id, in.br_ok)
             THEN [Logged([Result("request_code_review", task_id, "ESCALATED",
                                 current_attempts, {"br_update"})
                          EXCEPT !.reason = "max review attempts"],
                         s0, "request_code_review", "escalated")
                   EXCEPT !.tracker = [tracker EXCEPT ![task_id] = "blocked"]]
             ELSE Untouched(Raised("request_code_review", task_id, "BrError",
                                   current_attempts, {"br_update"}))
        ELSE IF ~in.api_key
        THEN _error_result(s0, task_id, "api key", {}, index)
        ELSE IF staged # "staged"
        THEN _error_result(s0, task_id, staged, {"stage"}, index)
        ELSE IF in.diff = ""
        THEN _error_result(s0, task_id, "no staged changes", {"stage", "diff"}, in.diff)
        ELSE IF ~in.assets
        THEN _error_result(s0, task_id, "assets", {"stage", "diff"}, in.diff)
        ELSE IF unchanged_diff(s0, Sha256(in.diff))
        THEN [Logged(_build_unchanged_result(s0, task_id, current_attempts),
                    s0, "request_code_review", "unchanged")
              EXCEPT !.index = in.diff]
        ELSE IF ~in.net_ok
        THEN [Saved(Raised("request_code_review", task_id, "APIError", attempt, io),
                    s1)
              EXCEPT !.index = in.diff]
        ELSE IF review.exc # None
        THEN [Saved(Raised("request_code_review", task_id, review.exc, attempt, io),
                    s1)
              EXCEPT !.index = in.diff]
        ELSE [Logged([Result("request_code_review", task_id, review.status,
                            attempt, io)
                     EXCEPT !.issues = review.issues],
                    s2, "request_code_review", lower(review.status))
              EXCEPT !.index = in.diff]

RequestCodeReview == \E in \in ReviewInputs : Does(request_code_review(in))

\* request_code_review while a task is active
ReviewOnTask ==
    /\ load_session.active_task # None
    /\ \E in \in BreakerReviewInputs : Does(request_code_review(in))

\* request_code_review while a task is active, its reviewer call counted
ReviewCounting ==
    /\ load_session.active_task # None
    /\ \E in \in BreakerReviewInputs : DoesCounting(request_code_review(in))

\* request_code_review on an active task, the reviewer answering with one
\* blocking issue
ReviewWithIssue ==
    /\ load_session.active_task # None
    /\ Does(request_code_review(
               [Happy EXCEPT !.response =
                                 <<Line("text", Body("array", <<ErrIssue>>))>>]))

\* ------------------------------------------- request_code_review, in steps
\* request_code_review awaits the reviewer: the staging area can change
\* between the moment the diff is read (step 4) and the moment the call
\* returns. reviewing.sent is the diff text handed to _perform_review by the
\* call in flight, reviewing.seen the diff text that was handed to it by the
\* call that stored the last verdict.
NoReviewCall == [sent |-> None, seen |-> None]
outstanding == reviewing.sent # None

\* the call gets as far as the reviewer
reaches_reviewer(in) == "reviewer" \in request_code_review(in).result.io

\* steps 1 to 7, up to await _perform_review(diff=diff, ...): the files are
\* staged, the diff is read and the attempt is counted.
review_sent(in) ==
    LET s0 == load_session
        task_id == ActiveId(s0)
        s1 == increment_review_attempts(s0, task_id)
    IN  [Saved(Result("request_code_review", task_id, "awaiting",
                      s1.review_attempts[task_id], {"stage", "diff", "reviewer"}),
               s1)
         EXCEPT !.index = in.diff]

\* step 8: state.last_review_diff_hash = await _git_diff_staged_hash(), read
\* from the staging area once the reviewer has answered
fingerprint_stored == Sha256(index)

\* the reviewer call returns or raises, then steps 8 and 9
review_returned(net_ok, response) ==
    LET s0 == load_session
        task_id == ActiveId(s0)
        attempt == s0.review_attempts[task_id]
        io == {"stage", "diff", "reviewer"}
        review == _perform_review(response, config.review_severity_threshold)
        s2 == [s0 EXCEPT !.last_review_status = review.status,
                         !.last_review_diff_hash = fingerprint_stored,
                         !.last_review_issues = review.issues]
    IN  IF ~net_ok
        THEN Untouched(Raised("request_code_review", task_id, "APIError",
                              attempt, io))
        ELSE IF review.exc # None
        THEN Untouched(Raised("request_code_review", task_id, review.exc,
                              attempt, io))
        ELSE Logged([Result("request_code_review", task_id, review.status,
                           attempt, io)
                    EXCEPT !.issues = review.issues],
                   s2, "request_code_review", lower(review.status))

ReviewSent ==
    \E in \in {[Happy EXCEPT !.diff = d] : d \in Diffs} :
        /\ ~outstanding
        /\ load_session.active_task # None
        /\ reaches_reviewer(in)
        /\ Effects(review_sent(in))
        /\ reviewing' = [reviewing EXCEPT !.sent = in.diff]
        /\ UNCHANGED <<calls, recovered>>

ReviewReturned ==
    \E net_ok \in BOOLEAN,
       response \in {in.response : in \in BreakerReviewInputs} :
        /\ outstanding
        /\ Effects(review_returned(net_ok, response))
        /\ reviewing' =
               IF review_returned(net_ok, response).result.exc = None
               THEN [sent |-> None, seen |-> reviewing.sent]
               ELSE [reviewing EXCEPT !.sent = None]
        /\ UNCHANGED <<calls, recovered>>

\* ------------------------------------------------------------ attempt_commit
CommitInputs == [check_rc : {0, 1}, commit_rc : {0, 1}]

\* git commit runs in _working_dir(): the worktree of the session when it has
\* one, where branch feat/<id> is checked out, and gains a commit of its own.
committed(s) ==
    IF s.worktree # None /\ s.active_task \in Tasks
       /\ branches[s.active_task] # "absent"
    THEN [branches EXCEPT ![s.active_task] = "ahead"]
    ELSE branches

\* attempt_commit without the comparison of the staged diff with the reviewed one
attempt_commit_unfingerprinted(in) ==
    LET s0 == load_session
        task_id == ActiveId(s0)
        Rejected(reason, io) ==
            Logged([Result("attempt_commit", task_id, "rejected", 0, io)
                   EXCEPT !.reason = reason],
                  s0, "attempt_commit", "rejected")
    IN  IF ~session_file \/ state.last_review_status # "APPROVED"
        THEN Rejected("no approved review", {})
        ELSE IF in.check_rc # 0
        THEN Rejected("quality gate", {"diff", "check"})
        ELSE IF in.commit_rc # 0
        THEN Rejected("git commit failed", {"diff", "check", "commit"})
        ELSE [Logged(Result("attempt_commit", task_id, "committed", 0,
                           {"diff", "check", "commit"}),
                    s0, "attempt_commit", "committed")
              EXCEPT !.index = "", !.branches = committed(s0)]

attempt_commit(in) ==
    LET s0 == load_session
        task_id == ActiveId(s0)
        Rejected(reason, io) ==
            Logged([Result("attempt_commit", task_id, "rejected", 0, io)
                   EXCEPT !.reason = reason],
                  s0, "attempt_commit", "rejected")
    IN  IF ~session_file \/ state.last_review_status # "APPROVED"
        THEN Rejected("no approved review", {})
        ELSE IF Sha256(index) # state.last_review_diff_hash
        THEN Rejected("diff changed", {"diff"})
        ELSE IF in.check_rc # 0
        THEN Rejected("quality gate", {"diff", "check"})
        ELSE IF in.commit_rc # 0
        THEN Rejected("git commit failed", {"diff", "check", "commit"})
        ELSE [Logged(Result("attempt_commit", task_id, "committed", 0,
                           {"diff", "check", "commit"}),
                    s0, "attempt_commit", "committed")
              EXCEPT !.index = "", !.branches = committed(s0)]

AttemptCommit == \E in \in CommitInputs : Does(attempt_commit(in))

\* the agent calls its next tool once request_code_review has returned
AttemptCommitNext == ~outstanding /\ AttemptCommit

\* ---------------------------------------------------------------- lifecycle
\* config.beads.auto_sync
auto_sync == TRUE

\* f"./worktrees/{task_id}"
worktree_path(task_id) ==
    IF task_id = "T1" THEN "./worktrees/T1" ELSE "./worktrees/T2"

\* br_ok: br update / br close exits 0; sync_ok: br sync exits 0; just_ok: the
\* just recipe exits 0; context_ok: get_task_context returns; show_ok: br
\* show exits 0.
AllOk == [br_ok |-> TRUE, sync_ok |-> TRUE, just_ok |-> TRUE, context_ok |-> TRUE,
          show_ok |-> TRUE]
StartInputs ==
    {AllOk, [AllOk EXCEPT !.br_ok = FALSE], [AllOk EXCEPT !.sync_ok = FALSE],
     [AllOk EXCEPT !.just_ok = FALSE], [AllOk EXCEPT !.context_ok = FALSE]}
CompleteInputs ==
    {AllOk, [AllOk EXCEPT !.br_ok = FALSE], [AllOk EXCEPT !.sync_ok = FALSE]}
AbandonInputs == {AllOk, [AllOk EXCEPT !.br_ok = FALSE]}
CleanupInputs == {AllOk, [AllOk EXCEPT !.just_ok = FALSE]}
RecoverInputs ==
    {AllOk, [AllOk EXCEPT !.br_ok = FALSE], [AllOk EXCEPT !.show_ok = FALSE]}

start_task(task_id, in) ==
    LET marked == [tracker EXCEPT ![task_id] = "in_progress"]
        s1 == [load_session EXCEPT !.active_task = task_id,
                                   !.worktree = worktree_path(task_id),
                                   !.phase = "working"]
        \* get_task_context audits its own call when it returns
        s2 == IF in.context_ok THEN audit_log(s1, "get_task_context", "ok") ELSE s1
        \* git worktree add -b feat/<id> ./worktrees/<id> main: refused when
        \* the branch or the directory is already there
        added == /\ in.just_ok
                 /\ branches[task_id] = "absent"
                 /\ worktree_path(task_id) \notin worktrees
    IN  IF ~br_succeeds(task_id, in.br_ok)
        THEN Untouched(Raised("start_task", task_id, "BrError", 0, {"br_update"}))
        ELSE IF auto_sync /\ ~in.sync_ok
        THEN [Untouched(Raised("start_task", task_id, "BrError", 0,
                               {"br_update", "br_sync"}))
              EXCEPT !.tracker = marked]
        ELSE IF ~added
        THEN [Untouched(Raised("start_task", task_id, "RuntimeError", 0,
                               {"br_update", "br_sync", "just"}))
              EXCEPT !.tracker = marked]
        ELSE [Logged(Result("start_task", task_id, "ok", 0,
                           {"br_update", "br_sync", "just"}),
                    s2, "start_task", "ok")
              EXCEPT !.appended =
                         (IF in.context_ok
                          THEN <<Entry("get_task_context", "ok")>>
                          ELSE <<>>) \o <<Entry("start_task", "ok")>>,
                     !.tracker = marked,
                     !.worktrees = worktrees \cup {worktree_path(task_id)},
                     !.branches = [branches EXCEPT ![task_id] = "created"]]

complete_task(task_id, in) ==
    LET closed == [tracker EXCEPT ![task_id] = "closed"]
    IN  IF ~br_succeeds(task_id, in.br_ok)
        THEN Untouched(Raised("complete_task", task_id, "BrError", 0, {"br_close"}))
        ELSE IF auto_sync /\ ~in.sync_ok
        THEN [Untouched(Raised("complete_task", task_id, "BrError", 0,
                               {"br_close", "br_sync"}))
              EXCEPT !.tracker = closed]
        ELSE [Logged(Result("complete_task", task_id, "ok", 0,
                           {"br_close", "br_sync"}),
                    clear_task(load_session), "complete_task", "ok")
              EXCEPT !.tracker = closed]

abandon_task(task_id, in) ==
    IF ~br_succeeds(task_id, in.br_ok)
    THEN Untouched(Raised("abandon_task", task_id, "BrError", 0, {"br_update"}))
    ELSE [Logged(Result("abandon_task", task_id, "ok", 0, {"br_update"}),
                clear_task(load_session), "abandon_task", "ok")
          EXCEPT !.tracker = [tracker EXCEPT ![task_id] = "open"]]

\* The cleanup-task recipe: git worktree remove ./worktrees/<id> --force, then
\* git branch -D feat/<id> 2>/dev/null || true.
cleanup_task(task_id, in) ==
    IF ~in.just_ok
    THEN Untouched(Raised("cleanup_task", task_id, "RuntimeError", 0, {"just"}))
    ELSE [Logged(Result("cleanup_task", task_id, "cleaned", 0, {"just"}),
                clear_task(load_session), "cleanup_task", "ok")
          EXCEPT !.worktrees = worktrees \ {worktree_path(task_id)},
                 !.branches = [branches EXCEPT ![task_id] = "absent"]]

\* --------------------------------------------------------------- merge_task
\* config.worktree.base_branch
base_branch == "main"

\* A line of git rebase output: "CONFLICT (content): Merge conflict in <file>"
\* or any other text.
Conflict(file) == [conflict |-> TRUE, file |-> file]
OtherText == [conflict |-> FALSE, file |-> ""]
RebaseOutputs ==
    {<<OtherText>>, <<Conflict("a.py"), OtherText>>,
     <<Conflict("a.py"), Conflict("b.py"), Conflict("a.py")>>}

\* only the first line of the output looked at
_parse_conflict_files_first(output) ==
    IF output[1].conflict THEN {output[1].file} ELSE {}

\* list(set(re.findall(pattern, output)))
_parse_conflict_files(output) ==
    {output[k].file : k \in {j \in DOMAIN output : output[j].conflict}}

\* porcelain: what git status --porcelain answers in the task worktree
\* ("unreadable" is a non-zero exit); current_branch: what git rev-parse
\* --abbrev-ref HEAD answers in the primary copy ("unreadable" likewise);
\* rebase_rc, rebase_output, merge_rc: what git rebase and git merge answer.
MergeInputs ==
    [porcelain : {"", "dirty", "unreadable"},
     current_branch : {base_branch, "feat/other", "unreadable"},
     rebase_rc : {0, 1}, rebase_output : RebaseOutputs, merge_rc : {0, 1}]

\* The answers git can give in the present state: a staged diff shows in the
\* status of the worktree it is staged in, a rebase that exits 0 reports no
\* conflict, and a branch that does not exist can be neither rebased nor
\* merged.
MergeInputsHere(task_id) ==
    {in \in MergeInputs :
        /\ (load_session.active_task = task_id /\ index # "")
              => in.porcelain # ""
        /\ in.rebase_rc = 0 => in.rebase_output = <<OtherText>>
        /\ branches[task_id] = "absent" => in.rebase_rc # 0}

\* git rebase <base> <branch> replays the commits of the branch onto base.
rebased(task_id) ==
    [branches EXCEPT ![task_id] = IF @ = "ahead" THEN "rebased" ELSE @]

\* step 1: rc != 0, or output not empty
uncommitted(in) == in.porcelain # ""

\* the primary copy's HEAD check skipped
off_base_ignored(in) == FALSE

\* step 2: rc != 0 or current_branch != base
off_base(in) == in.current_branch # base_branch

\* the session cleared along with the phase change
merged_phase_clearing(s) == clear_task([s EXCEPT !.phase = "merged"])

\* step 5: state.phase = "merged"
merged_phase(s) == [s EXCEPT !.phase = "merged"]

merge_task(task_id, in) ==
    LET Refused(io) ==
            Untouched([Result("merge_task", task_id, "error", 0, io)
                       EXCEPT !.reason = "refused"])
        conflicted_files == _parse_conflict_files(in.rebase_output)
        s0 == load_session
        s1 == IF session_file THEN merged_phase(state) ELSE s0
    IN  \* the git child process cannot be started in a directory that is gone
        IF worktree_path(task_id) \notin worktrees
        THEN Untouched(Raised("merge_task", task_id, "FileNotFoundError", 0, {}))
        ELSE IF uncommitted(in)
        THEN Refused({"status"})
        ELSE IF off_base(in)
        THEN Refused({"status", "rev-parse"})
        ELSE IF in.rebase_rc # 0
        THEN \* git rebase --abort puts the branch back where it was
             Logged([Result("merge_task", task_id, "conflict", 0,
                           {"status", "rev-parse", "rebase", "rebase_abort",
                            "audit_log"})
                    EXCEPT !.conflicted_files = conflicted_files,
                           !.next_steps = TRUE],
                   s0, "merge_task", "conflict")
        ELSE IF in.merge_rc # 0
        THEN \* git merge --abort; no audit entry on this path
             [Untouched([Result("merge_task", task_id, "error", 0,
                                {"status", "rev-parse", "rebase", "merge",
                                 "merge_abort"})
                         EXCEPT !.reason = "merge failed"])
              EXCEPT !.branches = rebased(task_id)]
        ELSE [Logged([Result("merge_task", task_id, "merged", 0,
                            {"status", "rev-parse", "rebase", "merge",
                             "audit_log"})
                     EXCEPT !.next_steps = TRUE],
                    s1, "merge_task", "ok")
              EXCEPT !.branches = [branches EXCEPT ![task_id] = "merged"]]

MergeTask ==
    \E task_id \in Tasks :
        \E in \in MergeInputsHere(task_id) : Does(merge_task(task_id, in))

StartTask == \E task_id \in Tasks, in \in StartInputs : Does(start_task(task_id, in))
CompleteTask ==
    \E task_id \in Tasks, in \in CompleteInputs : Does(complete_task(task_id, in))
AbandonTask ==
    \E task_id \in Tasks, in \in AbandonInputs : Does(abandon_task(task_id, in))
CleanupTask ==
    \E task_id \in Tasks, in \in CleanupInputs : Does(cleanup_task(task_id, in))

\* The lifecycle tools called on the task the session holds
StartNext == ~outstanding /\ StartTask
StartIdle ==
    \E task_id \in Tasks, in \in StartInputs :
        /\ load_session.active_task = None
        /\ Does(start_task(task_id, in))
CompleteActive ==
    \E in \in CompleteInputs :
        /\ load_session.active_task # None
        /\ Does(complete_task(load_session.active_task, in))
AbandonActive ==
    \E in \in AbandonInputs :
        /\ load_session.active_task # None
        /\ Does(abandon_task(load_session.active_task, in))
CleanupActive ==
    \E in \in CleanupInputs :
        /\ load_session.active_task # None
        /\ Does(cleanup_task(load_session.active_task, in))

\* ---------------------------------------------------------- recover_session
\* stale only after more than the threshold has elapsed
is_stale_after(last_action_time) ==
    IF last_action_time.kind # "none"
    THEN CASE last_action_time.kind = "text" -> TRUE
           [] last_action_time.kind = "naive" -> TRUE
           [] OTHER -> now - last_action_time.at > STALE_SESSION_MINUTES
    ELSE TRUE

\* A missing timestamp is falsy; fromisoformat raises ValueError on a string
\* that is no timestamp; subtracting a timestamp without offset from
\* datetime.now(UTC) raises TypeError; both are caught.
is_stale(last_action_time) ==
    IF last_action_time.kind # "none"
    THEN CASE last_action_time.kind = "text" -> TRUE
           [] last_action_time.kind = "naive" -> TRUE
           [] OTHER -> now - last_action_time.at >= STALE_SESSION_MINUTES
    ELSE TRUE

\* a failed lookup taken for a task still in progress
task_status_trusting(in, task_id) ==
    IF in.show_ok THEN tracker[task_id] ELSE "in_progress"

\* task_info.get("status", "unknown"), and "unknown" when br show raises
task_status(in, task_id) ==
    IF in.show_ok THEN tracker[task_id] ELSE "unknown"

\* the counters left out of the resume result
attempt_counts_empty(s) ==
    [test_attempts |-> [t \in Ids |-> 0], review_attempts |-> [t \in Ids |-> 0]]

attempt_counts(s) ==
    [test_attempts |-> s.test_attempts, review_attempts |-> s.review_attempts]

\* the clean result reached through a tracker lookup
clean_result_looked_up ==
    [Result("recover_session", None, "clean", 0, {"br_show"})
     EXCEPT !.action = "none"]

clean_result ==
    [Result("recover_session", None, "clean", 0, {}) EXCEPT !.action = "none"]

recover_session(in) ==
    LET task_id == state.active_task
        worktree_exists == state.worktree # None /\ state.worktree \in worktrees
        Return(s, id, status, action, reason, io) ==
            Logged([Result("recover_session", id, status, 0, io)
                   EXCEPT !.action = action, !.reason = reason],
                  s, "recover_session", "ok")
        \* the resume results carry worktree, last_action and attempt_counts
        Resume(status, io) ==
            Logged([Result("recover_session", task_id, status, 0, io)
                   EXCEPT !.action = "resume", !.worktree = state.worktree,
                          !.last_action = state.last_action,
                          !.attempt_counts = attempt_counts(state)],
                  state, "recover_session", "ok")
    IN  IF ~session_file \/ state.active_task = None
        THEN Logged(clean_result, load_session, "recover_session", "ok")
        ELSE IF ~is_stale(state.last_action_time)
        THEN Resume("active", {})
        ELSE IF task_status(in, task_id) # "in_progress"
        THEN Return(clear_task(state), task_id, "stale", "cleaned_up",
                    "task no longer in_progress", {"br_show"})
        ELSE IF ~worktree_exists
        THEN IF br_succeeds(task_id, in.br_ok)
             THEN [Return(clear_task(state), task_id, "stale", "cleaned_up",
                          "worktree missing", {"br_show", "br_update"})
                   EXCEPT !.tracker = [tracker EXCEPT ![task_id] = "open"]]
             ELSE Untouched(Raised("recover_session", task_id, "BrError", 0,
                                   {"br_show", "br_update"}))
        ELSE Resume("stale", {"br_show"})

RecoverSession == \E in \in RecoverInputs : Does(recover_session(in))

\* What the agent holds of its last recover_session call: the status and the
\* action of the dict returned, the exception when the call raised, and the
\* time of the call.
NotRecovered == [status |-> None, action |-> None, exc |-> None, at |-> 0]
Returned(result) ==
    [status |-> result.status, action |-> result.action, exc |-> result.exc,
     at |-> now]

\* recover_session, its answer kept
RecoverSessionAgain ==
    \E in \in RecoverInputs :
        /\ Effects(recover_session(in))
        /\ recovered' = Returned(recover_session(in).result)
        /\ UNCHANGED <<calls, reviewing>>

\* -------------------------------------------------------------- environment
\* git add / git reset / edits made outside the tools change the staged diff.
GitChange ==
    /\ \E d \in Diffs : index' = d
    /\ UNCHANGED <<config, session_file, state, tracker, worktrees, branches,
                   now, content, review_result, changed, stage_result,
                   phase_dir, beads, import_result, graph, cycles, orphans,
                   calls, reviewing, recovered>>

\* A worktree directory is removed outside the tools.
WorktreeLost ==
    /\ \E w \in worktrees : worktrees' = worktrees \ {w}
    /\ UNCHANGED <<config, session_file, state, tracker, index, branches, now,
                   content, review_result, changed, stage_result, phase_dir,
                   beads, import_result, graph, cycles, orphans, calls,
                   reviewing, recovered>>

\* A commit made in the worktree of a task: its branch gains a commit of its
\* own.
GitCommit ==
    /\ \E t \in Tasks :
          /\ worktree_path(t) \in worktrees
          /\ branches[t] # "absent"
          /\ branches' = [branches EXCEPT ![t] = "ahead"]
    /\ UNCHANGED <<config, session_file, state, tracker, index, worktrees, now,
                   content, review_result, changed, stage_result, phase_dir,
                   beads, import_result, graph, cycles, orphans, calls,
                   reviewing, recovered>>

\* session.json as another writer left it: last_action_time is whatever
\* that writer put there.
Stamps == {0 - 1, 0, 1, TickMinutes - 1, TickMinutes, TickMinutes + 1}
Times ==
    {NoTime, Time("text", 0)}
      \cup {Time(k, at) : k \in {"aware", "naive"}, at \in Stamps}
SessionRewritten ==
    /\ session_file
    /\ \E time \in Times : state' = [state EXCEPT !.last_action_time = time]
    /\ UNCHANGED <<config, session_file, tracker, index, worktrees, branches,
                   now, content, review_result, changed, stage_result,
                   phase_dir, beads, import_result, graph, cycles, orphans,
                   calls, reviewing, recovered>>

\* Time passes.
Tick ==
    /\ now + TickMinutes <= MaxTicks * TickMinutes
    /\ now' = now + TickMinutes
    /\ UNCHANGED <<config, session_file, state, tracker, index, worktrees,
                   branches, content, review_result, changed, stage_result,
                   phase_dir, beads, import_result, graph, cycles, orphans,
                   calls, reviewing, recovered>>

\* _perform_review on its own, on the response drawn in InitReview.
PerformReview ==
    /\ review_result = NoReview
    /\ review_result' = _perform_review(content, config.review_severity_threshold)
    /\ UNCHANGED <<config, session_file, state, tracker, index, worktrees,
                   branches, now, content, changed, stage_result, phase_dir,
                   beads, import_result, graph, cycles, orphans, calls,
                   reviewing, recovered>>

\* ------------------------------------------------------------ specification
Configs ==
    [max_test_attempts : 1..MaxThreshold, max_review_attempts : 1..MaxThreshold,
     review_severity_threshold : Severities]

\* A project before its first tool call: no session file, no worktree.
FreshProject ==
    /\ session_file = FALSE
    /\ state = SessionState
    /\ tracker = [t \in Tasks |-> "open"]
    /\ index = ""
    /\ worktrees = {}
    /\ branches = [t \in Tasks |-> "absent"]
    /\ now = 0
    /\ calls = NoCalls
    /\ reviewing = NoReviewCall
    /\ recovered = NotRecovered

\* Nothing changed in the working copy and nothing staged by _stage_files.
NothingChanged == changed = NoChanges /\ stage_result = NoStage

\* No plan document, an empty tracker and no import made.
NothingPlanned == phase_dir = <<>> /\ beads = NoBeads /\ import_result = None

\* No task list handed to detect_cycles.
NothingWalked == graph = <<>> /\ cycles = NotWalked /\ orphans = NotWalked

Fresh == FreshProject /\ NothingChanged /\ NothingPlanned /\ NothingWalked

Init ==
    /\ config \in Configs
    /\ Fresh
    /\ content = <<>>
    /\ review_result = NoReview

Next ==
    \/ RunTests
    \/ RequestCodeReview
    \/ AttemptCommit
    \/ StartTask
    \/ CompleteTask
    \/ AbandonTask
    \/ CleanupTask
    \/ MergeTask
    \/ RecoverSession
    \/ GitChange
    \/ GitCommit
    \/ WorktreeLost
    \/ SessionRewritten
    \/ Tick

Spec == Init /\ [][Next]_vars

\* The test breaker through the task lifecycle.
InitTests ==
    /\ config \in [max_test_attempts : 1..MaxThreshold,
                   max_review_attempts : {MaxThreshold},
                   review_severity_threshold : {"error"}]
    /\ Fresh
    /\ content = <<>>
    /\ review_result = NoReview

NextTests == RunTests \/ StartTask \/ CompleteTask \/ AbandonTask \/ CleanupTask

SpecTests == InitTests /\ [][NextTests]_vars

\* Review and its breaker.
InitReviews ==
    /\ config \in [max_test_attempts : {MaxThreshold},
                   max_review_attempts : 1..MaxThreshold,
                   review_severity_threshold : Severities]
    /\ Fresh
    /\ content = <<>>
    /\ review_result = NoReview

NextReviews == RequestCodeReview \/ GitChange \/ StartTask

SpecReviews == InitReviews /\ [][NextReviews]_vars

\* The commit gate behind the review.
InitCommits ==
    /\ config \in [max_test_attempts : {MaxThreshold},
                   max_review_attempts : {MaxThreshold},
                   review_severity_threshold : {"error"}]
    /\ Fresh
    /\ content = <<>>
    /\ review_result = NoReview

NextCommits == RequestCodeReview \/ AttemptCommit \/ GitChange \/ StartTask

SpecCommits == InitCommits /\ [][NextCommits]_vars

\* Both breakers through the whole task lifecycle and session recovery, with
\* the lowest thresholds.
InitBreakers ==
    /\ config \in [max_test_attempts : {1}, max_review_attempts : {1},
                   review_severity_threshold : {"error"}]
    /\ Fresh
    /\ content = <<>>
    /\ review_result = NoReview

NextBreakers ==
    \/ RunTestsOnTask
    \/ ReviewOnTask
    \/ StartTask
    \/ CompleteTask
    \/ AbandonTask
    \/ CleanupTask
    \/ RecoverSession
    \/ Tick

SpecBreakers == InitBreakers /\ [][NextBreakers]_vars

\* Merge and cleanup of task branches.
InitMerge ==
    /\ config \in [max_test_attempts : {1}, max_review_attempts : {1},
                   review_severity_threshold : {"error"}]
    /\ Fresh
    /\ content = <<>>
    /\ review_result = NoReview

NextMerge ==
    StartTask \/ GitChange \/ GitCommit \/ MergeTask \/ CleanupTask \/ CompleteTask

SpecMerge == InitMerge /\ [][NextMerge]_vars

\* Session recovery.
InitRecover ==
    /\ config \in [max_test_attempts : {1}, max_review_attempts : {1},
                   review_severity_threshold : {"error"}]
    /\ Fresh
    /\ content = <<>>
    /\ review_result = NoReview

NextRecover ==
    \/ StartTask
    \/ RunTestsOnTask
    \/ CleanupTask
    \/ RecoverSession
    \/ WorktreeLost
    \/ SessionRewritten
    \/ Tick

SpecRecover == InitRecover /\ [][NextRecover]_vars

\* The reviewer's verdict as a function of the response text and the
\* configured severity threshold.
InitReview ==
    /\ config \in Configs
    /\ Fresh
    /\ content \in Responses
    /\ review_result = NoReview

NextReview == PerformReview

SpecReview == InitReview /\ [][NextReview]_vars

\* The first run_tests call on the active task
FirstRunTests ==
    /\ load_session.test_attempts[ActiveId(load_session)] = 0
    /\ RunTestsOnTask

\* The first tick of the clock
FirstTick == now = 0 /\ Tick

\* The ways a session is cleared, on sessions that hold counted attempts and
\* a stored review.
InitClears ==
    /\ config \in [max_test_attempts : {1}, max_review_attempts : {1},
                   review_severity_threshold : {"error"}]
    /\ Fresh
    /\ content = <<>>
    /\ review_result = NoReview

NextClears ==
    \/ FirstRunTests
    \/ ReviewWithIssue
    \/ StartIdle
    \/ CompleteActive
    \/ AbandonActive
    \/ CleanupActive
    \/ RecoverSession
    \/ WorktreeLost
    \/ FirstTick

SpecClears == InitClears /\ [][NextClears]_vars

\* Staging on its own, over every set of changes in the working copy.
InitStage ==
    /\ config \in [max_test_attempts : {1}, max_review_attempts : {1},
                   review_severity_threshold : {"error"}]
    /\ FreshProject
    /\ content = <<>>
    /\ review_result = NoReview
    /\ changed \in Trees
    /\ stage_result = NoStage
    /\ NothingPlanned
    /\ NothingWalked

NextStage == StageFiles

SpecStage == InitStage /\ [][NextStage]_vars

\* The import of plan documents written into one phase directory.
InitImport ==
    /\ config \in [max_test_attempts : {1}, max_review_attempts : {1},
                   review_severity_threshold : {"error"}]
    /\ Fresh
    /\ content = <<>>
    /\ review_result = NoReview

NextImport == ImportGsdPlan \/ PlanWritten

SpecImport == InitImport /\ [][NextImport]_vars

\* The task lifecycle by tool calls alone, collaborator failures included.
InitLifecycle ==
    /\ config \in [max_test_attempts : {1}, max_review_attempts : {1},
                   review_severity_threshold : {"error"}]
    /\ Fresh
    /\ content = <<>>
    /\ review_result = NoReview

NextLifecycle ==
    \/ StartTask
    \/ MergeTask
    \/ CleanupTask
    \/ CompleteTask
    \/ AbandonTask
    \/ RecoverSession

SpecLifecycle == InitLifecycle /\ [][NextLifecycle]_vars

\* Reviews and commits while the agent moves from one task to another.
InitScoped ==
    /\ config \in [max_test_attempts : {MaxThreshold},
                   max_review_attempts : {MaxThreshold},
                   review_severity_threshold : {"error"}]
    /\ Fresh
    /\ content = <<>>
    /\ review_result = NoReview

NextScoped ==
    \/ ReviewCounting
    \/ AttemptCommit
    \/ GitChange
    \/ StartTask
    \/ CompleteActive

SpecScoped == InitScoped /\ [][NextScoped]_vars

\* Reviews during which the staging area changes.
InitOutstanding ==
    /\ config \in [max_test_attempts : {MaxThreshold},
                   max_review_attempts : {MaxThreshold},
                   review_severity_threshold : {"error"}]
    /\ Fresh
    /\ content = <<>>
    /\ review_result = NoReview

NextOutstanding ==
    \/ StartNext
    \/ ReviewSent
    \/ GitChange
    \/ ReviewReturned
    \/ AttemptCommitNext

SpecOutstanding == InitOutstanding /\ [][NextOutstanding]_vars

\* recover_session called again and again on the session of a started task,
\* while time passes and worktrees get lost.
InitRecovered ==
    /\ config \in [max_test_attempts : {1}, max_review_attempts : {1},
                   review_severity_threshold : {"error"}]
    /\ Fresh
    /\ content = <<>>
    /\ review_result = NoReview

NextRecovered ==
    \/ StartIdle
    \/ RecoverSessionAgain
    \/ CompleteTask
    \/ WorktreeLost
    \/ Tick

SpecRecovered == InitRecovered /\ [][NextRecovered]_vars

\* Both breakers over whole histories of one agent's calls, the test runs
\* and the reviewer calls counted.
InitCalls ==
    /\ config \in [max_test_attempts : {MaxThreshold},
                   max_review_attempts : {MaxThreshold},
                   review_severity_threshold : {"error"}]
    /\ Fresh
    /\ content = <<>>
    /\ review_result = NoReview

NextCalls ==
    \/ RunTestsCounting
    \/ ReviewCounting
    \/ StartTask
    \/ CompleteActive
    \/ AbandonActive
    \/ CleanupActive

SpecCalls == InitCalls /\ [][NextCalls]_vars

\* detect_cycles on its own, on the task list drawn in InitCycles.
InitCycles ==
    /\ config \in [max_test_attempts : {1}, max_review_attempts : {1},
                   review_severity_threshold : {"error"}]
    /\ FreshProject
    /\ content = <<>>
    /\ review_result = NoReview
    /\ NothingChanged
    /\ NothingPlanned
    /\ \E n \in 0..Len(NodeIds) : graph \in Graphs(n)
    /\ cycles = NotWalked
    /\ orphans = NotWalked

NextCycles == DetectCycles

SpecCycles == InitCycles /\ [][NextCycles]_vars

\* detect_orphans on its own, on the same task lists.
InitOrphans == InitCycles

NextOrphans == DetectOrphans

SpecOrphans == InitOrphans /\ [][NextOrphans]_vars

\* ================================================================ properties
\* A property of a tool is stated over every reachable state and every answer
\* of the collaborators: o is the outcome of the call made in that state, and
\* o.state, o.tracker, o.index are what the call leaves behind.

\* C1: for every run_tests call made while a task t is active, with
\* N = max_test_attempts: when the attempt number counted by the call exceeds
\* N the test command is not run, whatever its exit code would have been, the
\* call returns ESCALATED and the tracker holds t as blocked (a tracker that
\* refuses the update ends the call with its BrError and keeps t's status);
\* when the attempt number is at most N the test command runs and the call
\* returns pass or fail.
C1_TestBreaker ==
    \A in \in TestInputs :
        LET o == run_tests(in)
            t == load_session.active_task
        IN  t # None =>
              IF o.state.test_attempts[t] > config.max_test_attempts
              THEN /\ "test" \notin o.result.io
                   /\ IF in.br_ok
                      THEN /\ o.result.status = "ESCALATED"
                           /\ o.tracker[t] = "blocked"
                      ELSE /\ o.result.exc = "BrError"
                           /\ o.tracker = tracker
              ELSE /\ "test" \in o.result.io
                   /\ o.result.status = (IF in.rc = 0 THEN "pass" ELSE "fail")
                   /\ o.tracker = tracker

\* C1 witness: the call after the last allowed attempt has escalated an
\* active task.
C1_Witness ==
    \E t \in Tasks :
        /\ state.active_task = t
        /\ state.test_attempts[t] = config.max_test_attempts + 1
        /\ state.last_action = "run_tests"
        /\ state.last_action_result = "escalated"
        /\ tracker[t] = "blocked"

\* C2: a request_code_review call made while a task t is active whose
\* recorded review_attempts[t] is at least max_review_attempts stages nothing,
\* reads no diff, calls no reviewer and leaves every review counter and the
\* stored review as they are; it returns ESCALATED and the tracker holds t as
\* blocked (a tracker that refuses the update ends the call with its BrError,
\* the session and t's status untouched).
C2_ReviewBreaker ==
    \A in \in ReviewInputs :
        LET o == request_code_review(in)
            s0 == load_session
            t == s0.active_task
        IN  (t # None /\ s0.review_attempts[t] >= config.max_review_attempts) =>
              /\ o.result.io \cap {"stage", "diff", "reviewer"} = {}
              /\ o.index = index
              /\ o.state.review_attempts = s0.review_attempts
              /\ o.state.last_review_status = s0.last_review_status
              /\ o.state.last_review_diff_hash = s0.last_review_diff_hash
              /\ o.state.last_review_issues = s0.last_review_issues
              /\ IF in.br_ok
                 THEN /\ o.result.status = "ESCALATED"
                      /\ o.result.issues = <<>>
                      /\ o.tracker[t] = "blocked"
                 ELSE /\ o.result.exc = "BrError"
                      /\ o.state = state
                      /\ o.tracker = tracker

\* C2 witness: the review breaker has escalated an active task whose count
\* stands at the threshold.
C2_Witness ==
    \E t \in Tasks :
        /\ state.active_task = t
        /\ state.review_attempts[t] = config.max_review_attempts
        /\ state.last_action = "request_code_review"
        /\ state.last_action_result = "escalated"
        /\ tracker[t] = "blocked"

\* C3: escalation is terminal per task id.  With NT = max_test_attempts and
\* NR = max_review_attempts, in every reachable state:
\*  (recorded) a run_tests call that returns ESCALATED leaves
\*    test_attempts[t] > NT, and a request_code_review call that returns
\*    ESCALATED from its breaker leaves review_attempts[t] >= NR;
\*  (kept) no call of run_tests, request_code_review, start_task,
\*    complete_task, abandon_task, cleanup_task or recover_session, for any
\*    task id and any answer of the collaborators, lowers the test_attempts or
\*    review_attempts of any id;
\*  (terminal) while t is active with test_attempts[t] > NT every run_tests
\*    call returns ESCALATED without running the test command, and with
\*    review_attempts[t] >= NR every request_code_review call returns
\*    ESCALATED without calling the reviewer (a tracker that refuses the
\*    update ends either call with its BrError instead);
\*  (fresh) while an id with fewer recorded attempts is active the breakers
\*    do not trip, whatever the counts of the other ids.
\* By induction over the calls, every call made for t after an escalation
\* for t escalates, whatever calls lie in between.
C3_EscalationTerminal ==
    LET s0 == load_session
        t == s0.active_task
        NT == config.max_test_attempts
        NR == config.max_review_attempts
        Kept(o) ==
            \A id \in Ids :
                /\ o.state.test_attempts[id] >= s0.test_attempts[id]
                /\ o.state.review_attempts[id] >= s0.review_attempts[id]
        Tripped(o, in) ==
            IF in.br_ok THEN o.result.status = "ESCALATED"
                        ELSE o.result.exc = "BrError"
    IN  /\ \A in \in TestInputs :
              LET o == run_tests(in)
              IN  /\ Kept(o)
                  /\ t # None =>
                       /\ o.result.status = "ESCALATED"
                             => o.state.test_attempts[t] > NT
                       /\ s0.test_attempts[t] > NT
                             => "test" \notin o.result.io /\ Tripped(o, in)
                       /\ s0.test_attempts[t] < NT => "test" \in o.result.io
        /\ \A in \in BreakerReviewInputs :
              LET o == request_code_review(in)
              IN  /\ Kept(o)
                  /\ t # None =>
                       /\ (o.result.status = "ESCALATED"
                              /\ "br_update" \in o.result.io)
                             => o.state.review_attempts[t] >= NR
                       /\ s0.review_attempts[t] >= NR
                             => "reviewer" \notin o.result.io /\ Tripped(o, in)
                       /\ s0.review_attempts[t] < NR
                             => "br_update" \notin o.result.io
        /\ \A task_id \in Tasks :
              /\ \A in \in StartInputs : Kept(start_task(task_id, in))
              /\ \A in \in CompleteInputs : Kept(complete_task(task_id, in))
              /\ \A in \in AbandonInputs : Kept(abandon_task(task_id, in))
              /\ \A in \in CleanupInputs : Kept(cleanup_task(task_id, in))
        /\ \A in \in RecoverInputs : Kept(recover_session(in))

\* C3 witness: both tasks have been worked on; t is the active one, its review
\* count stands at the threshold, and its test breaker has just escalated,
\* while u was tested on a count of its own.
C3_Witness ==
    \E t \in Tasks, u \in Tasks :
        /\ t # u
        /\ state.active_task = t
        /\ state.test_attempts[t] > config.max_test_attempts
        /\ state.review_attempts[t] = config.max_review_attempts
        /\ tracker[u] = "closed"
        /\ state.test_attempts[u] \in 1..config.max_test_attempts
        /\ state.last_action = "run_tests"
        /\ state.last_action_result = "escalated"

\* C4: a request_code_review call that ends in a precondition error (API key
\* missing, staging error or nothing to stage, empty staged diff, constitution
\* or prompt missing) leaves review_attempts of every id as it was; and a call
\* after which review_attempts differs has called the reviewer and has raised
\* the count of the active id, and of no other, by exactly 1.
C4_AttemptCountedWithReview ==
    \A in \in ReviewInputs :
        LET o == request_code_review(in)
            s0 == load_session
        IN  /\ o.result.status = "error"
                  => /\ o.result.reason \in {"api key", "error", "nothing_to_stage",
                                             "no staged changes", "assets"}
                     /\ "reviewer" \notin o.result.io
                     /\ o.state.review_attempts = s0.review_attempts
            /\ o.state.review_attempts # s0.review_attempts
                  => /\ "reviewer" \in o.result.io
                     /\ o.state.review_attempts =
                           [s0.review_attempts EXCEPT ![ActiveId(s0)] = @ + 1]

\* C4 witness: a review was counted for the active task, and the call after
\* it ended in a precondition error with the count still at 1.
C4_Witness ==
    \E t \in Tasks :
        /\ state.active_task = t
        /\ state.review_attempts[t] = 1
        /\ state.last_review_status = "REJECTED"
        /\ state.last_action = "request_code_review"
        /\ state.last_action_result = "error"

\* C5: attempt_commit runs git commit exactly when the stored
\* last_review_status is APPROVED, the fingerprint of the staged diff equals
\* last_review_diff_hash and the quality check exits 0, the three being
\* checked in this order (no diff is read without an approved review, no
\* check is run on a changed diff).  In every other case, and when git commit
\* itself fails, the call returns status rejected, raises nothing, leaves the
\* staged diff uncommitted and leaves last_review_status,
\* last_review_diff_hash, last_review_issues and both counters as they were.
C5_CommitGate ==
    \A in \in CommitInputs :
        LET o == attempt_commit(in)
            s0 == load_session
            approved == s0.last_review_status = "APPROVED"
            same == Sha256(index) = s0.last_review_diff_hash
            checked == in.check_rc = 0
        IN  /\ "commit" \in o.result.io <=> (approved /\ same /\ checked)
            /\ "diff" \in o.result.io <=> approved
            /\ "check" \in o.result.io <=> (approved /\ same)
            /\ o.result.status = "committed"
                  <=> (approved /\ same /\ checked /\ in.commit_rc = 0)
            /\ o.result.status # "committed"
                  => /\ o.result.status = "rejected"
                     /\ o.result.exc = None
                     /\ o.index = index
                     /\ o.state.last_review_status = s0.last_review_status
                     /\ o.state.last_review_diff_hash = s0.last_review_diff_hash
                     /\ o.state.last_review_issues = s0.last_review_issues
                     /\ o.state.test_attempts = s0.test_attempts
                     /\ o.state.review_attempts = s0.review_attempts

\* C5 witness: attempt_commit has rejected an approved review because the
\* staged diff is no longer the reviewed one.
C5_Witness ==
    /\ state.last_action = "attempt_commit"
    /\ state.last_action_result = "rejected"
    /\ state.last_review_status = "APPROVED"
    /\ index # ""
    /\ Sha256(index) # state.last_review_diff_hash

\* C6 as stated: whenever the call before was a real review for the active
\* task (the session's last audited action is a request_code_review that
\* ended approved, rejected, or escalated below the threshold, where only a
\* review escalates) and this request_code_review call, with API key and
\* review files present, stages a diff that has the stored fingerprint, the
\* call returns the stored status and issues tagged unchanged, calls no
\* reviewer and leaves review_attempts as it was, at every attempt number of
\* the first review.
C6_UnchangedAtEveryAttempt ==
    \A in \in ReviewInputs :
        LET o == request_code_review(in)
            s0 == load_session
            t == s0.active_task
        IN  (/\ t # None
             /\ s0.last_action = "request_code_review"
             /\ \/ s0.last_action_result \in {"approved", "rejected"}
                \/ /\ s0.last_action_result = "escalated"
                   /\ s0.review_attempts[t] < config.max_review_attempts
             /\ in.api_key /\ in.assets
             /\ _stage_files(in.paths, in.stage_all, in.safe, in.add_ok) = "staged"
             /\ Sha256(in.diff) = s0.last_review_diff_hash) =>
               /\ o.result.status = s0.last_review_status
               /\ o.result.issues = s0.last_review_issues
               /\ o.result.unchanged
               /\ "reviewer" \notin o.result.io
               /\ o.state.review_attempts = s0.review_attempts

\* C6 amended: the same, for a first review whose attempt number is below
\* max_review_attempts; the stored verdict itself is left as it was.
C6_UnchangedBelowThreshold ==
    \A in \in ReviewInputs :
        LET o == request_code_review(in)
            s0 == load_session
            t == s0.active_task
        IN  (/\ t # None
             /\ s0.last_action = "request_code_review"
             /\ s0.last_action_result \in {"approved", "rejected", "escalated"}
             /\ s0.review_attempts[t] < config.max_review_attempts
             /\ in.api_key /\ in.assets
             /\ _stage_files(in.paths, in.stage_all, in.safe, in.add_ok) = "staged"
             /\ Sha256(in.diff) = s0.last_review_diff_hash) =>
               /\ o.result.status = s0.last_review_status
               /\ o.result.issues = s0.last_review_issues
               /\ o.result.unchanged
               /\ "reviewer" \notin o.result.io
               /\ o.state.review_attempts = s0.review_attempts
               /\ o.state.last_review_status = s0.last_review_status
               /\ o.state.last_review_diff_hash = s0.last_review_diff_hash
               /\ o.state.last_review_issues = s0.last_review_issues

\* C6 witness: the first review of the active task approved the staged diff and
\* the request that followed found the diff unchanged.
C6_Witness ==
    \E t \in Tasks :
        /\ state.active_task = t
        /\ state.review_attempts[t] = 1
        /\ config.max_review_attempts > 1
        /\ state.last_review_status = "APPROVED"
        /\ state.last_review_diff_hash = Sha256(index)
        /\ state.last_action = "request_code_review"
        /\ state.last_action_result = "unchanged"

\* C7: a request_code_review call for an active task that performs a review
\* hands back, and stores as last_review_issues, one and the same list: on attempt 1 exactly the reviewer's issues; from attempt 2 on a
\* list without two issues of the same (rule, file, line) that holds every
\* (rule, file, line) of the issues stored by the previous attempt and of the
\* reviewer's current issues, and no other.
C7_IssuesMerged ==
    \A in \in ReviewInputs :
        LET o == request_code_review(in)
            s0 == load_session
            t == s0.active_task
            previous == s0.last_review_issues
            current ==
                _perform_review(in.response, config.review_severity_threshold).issues
            returned == o.result.issues
            Key(i) == <<i.rule, i.file, i.line>>
            Keys(issues) == {Key(issues[k]) : k \in DOMAIN issues}
        IN  (/\ t # None
             /\ "reviewer" \in o.result.io
             /\ o.result.exc = None) =>
               /\ o.state.last_review_issues = returned
               /\ IF o.state.review_attempts[t] >= 2
                  THEN /\ Keys(returned) = Keys(previous) \cup Keys(current)
                       /\ \A j, k \in DOMAIN returned :
                             Key(returned[j]) = Key(returned[k]) => j = k
                  ELSE returned = current

\* C8: every run_tests or request_code_review call made while a task t is
\* active that returns ESCALATED leaves the tracker holding t as blocked.
C8_EscalatedIsBlocked ==
    LET t == load_session.active_task
    IN  t # None =>
          /\ \A in \in TestInputs :
                LET o == run_tests(in)
                IN  o.result.status = "ESCALATED" => o.tracker[t] = "blocked"
          /\ \A in \in BreakerReviewInputs :
                LET o == request_code_review(in)
                IN  o.result.status = "ESCALATED" => o.tracker[t] = "blocked"

\* C9: for every response whose payload is not JSON, is JSON but not an
\* array, or is an array holding an element that is not an issue object,
\* _perform_review returns ESCALATED with no issues and the response text
\* (surrounding white space aside) as raw_response, and raises nothing.
C9_MalformedEscalates ==
    LET payloads == {content[k].body : k \in {j \in DOMAIN content :
                                                content[j].t = "text"}}
        malformed ==
            \/ payloads = {}
            \/ \E b \in payloads :
                  \/ b.kind \in {"notjson", "object"}
                  \/ b.kind = "array" /\ \E k \in DOMAIN b.items : ~b.items[k].obj
    IN  (review_result # NoReview /\ malformed) =>
          /\ review_result.exc = None
          /\ review_result.status = "ESCALATED"
          /\ review_result.issues = <<>>
          /\ review_result.raw_response = strip(content)

\* C10: for a response that parses as an array of issue objects the verdict is
\* REJECTED if some issue has a blocking severity and APPROVED if none has,
\* where error blocks under every review_severity_threshold and warning
\* blocks only under the threshold warning; the empty array is APPROVED.
C10_Verdict ==
    LET parsed == json_loads(strip_fences(strip(content)))
        threshold == config.review_severity_threshold
        Blocks(severity) ==
            \/ severity = "error"
            \/ severity = "warning" /\ threshold = "warning"
        blocked == \E k \in DOMAIN parsed.items : Blocks(parsed.items[k].severity)
    IN  (/\ review_result # NoReview
         /\ parsed.ok /\ parsed.kind = "array"
         /\ \A k \in DOMAIN parsed.items : parsed.items[k].obj) =>
          /\ review_result.exc = None
          /\ review_result.status = (IF blocked THEN "REJECTED" ELSE "APPROVED")
          /\ parsed.items = <<>> => review_result.status = "APPROVED"

\* C10 witness: under the threshold error, a response whose issues are
\* warnings and infos, a warning among them, has been approved.
C10_Witness ==
    /\ config.review_severity_threshold = "error"
    /\ review_result.status = "APPROVED"
    /\ \E k \in DOMAIN review_result.issues :
          review_result.issues[k].severity = "warning"

\* ------------------------------------------------------------------ C11
\* C11: merge_task refuses when the task worktree has uncommitted changes or
\* the primary copy's HEAD is not the base branch: it returns status error,
\* runs no rebase and no merge, writes no audit entry, and leaves the session
\* (phase included), the task branch, the base branch, the worktrees and the
\* tracker as they were. When the worktree directory itself is gone, git
\* cannot be started there and the call ends with FileNotFoundError instead,
\* with the same nothing done.
C11_MergeRefuses ==
    \A t \in Tasks : \A in \in MergeInputsHere(t) :
        LET o == merge_task(t, in)
        IN  (in.porcelain # "" \/ in.current_branch # base_branch)
              => /\ IF worktree_path(t) \in worktrees
                    THEN o.result.status = "error" /\ o.result.exc = None
                    ELSE o.result.exc = "FileNotFoundError"
                 /\ o.result.io \cap {"rebase", "merge", "audit_log"} = {}
                 /\ o.session_file = session_file
                 /\ o.state = state
                 /\ o.branches = branches
                 /\ o.worktrees = worktrees
                 /\ o.tracker = tracker

\* A task with commits of its own is active in its worktree with a staged
\* diff, and every merge_task call for it is refused.
C11_Witness ==
    \E t \in Tasks :
        /\ state.active_task = t
        /\ worktree_path(t) \in worktrees
        /\ branches[t] = "ahead"
        /\ index # ""
        /\ state.phase = "working"
        /\ \A in \in MergeInputsHere(t) :
              /\ merge_task(t, in).result.status = "error"
              /\ merge_task(t, in).state.phase = "working"

\* ------------------------------------------------------------------ C12
\* C12: when the rebase step of merge_task fails, merge_task aborts the
\* rebase, runs no merge, returns status conflict with the files named by the
\* conflict lines of the rebase output (each once) and the manual-resolution
\* steps, and leaves the phase, active task, worktree path and the branches
\* as they were.
C12_RebaseConflict ==
    \A t \in Tasks : \A in \in MergeInputsHere(t) :
        LET o == merge_task(t, in)
            s0 == load_session
            out == in.rebase_output
        IN  (/\ worktree_path(t) \in worktrees
             /\ in.porcelain = "" /\ in.current_branch = base_branch
             /\ in.rebase_rc # 0)
              => /\ o.result.status = "conflict" /\ o.result.exc = None
                 /\ {"rebase", "rebase_abort"} \subseteq o.result.io
                 /\ o.result.io \cap {"merge", "merge_abort"} = {}
                 /\ \A k \in DOMAIN out :
                       out[k].conflict => out[k].file \in o.result.conflicted_files
                 /\ \A f \in o.result.conflicted_files :
                       \E k \in DOMAIN out : out[k].conflict /\ out[k].file = f
                 /\ o.result.next_steps
                 /\ o.state.phase = s0.phase
                 /\ o.state.active_task = s0.active_task
                 /\ o.state.worktree = s0.worktree
                 /\ o.branches = branches
                 /\ o.worktrees = worktrees

\* A merge of the active task's branch ended in a conflict and the task is
\* still in phase working, its branch still holding unmerged commits.
C12_Witness ==
    \E t \in Tasks :
        /\ state.active_task = t
        /\ state.last_action = "merge_task"
        /\ state.last_action_result = "conflict"
        /\ state.phase = "working"
        /\ branches[t] = "ahead"
        /\ worktree_path(t) \in worktrees

\* ------------------------------------------------------------------ C13
\* C13: git merge --no-ff is run only after the rebase exited 0; when the
\* merge exits 0 merge_task returns merged, the phase is merged and the
\* worktree directory, the task branch, active_task and the worktree path stay
\* in place; when the merge fails merge_task aborts the merge, returns status
\* error and leaves the session as it was.
C13_MergeAfterRebase ==
    \A t \in Tasks : \A in \in MergeInputsHere(t) :
        LET o == merge_task(t, in)
            s0 == load_session
            reached == /\ worktree_path(t) \in worktrees
                       /\ in.porcelain = "" /\ in.current_branch = base_branch
                       /\ in.rebase_rc = 0
        IN  /\ "merge" \in o.result.io <=> reached
            /\ "merge" \in o.result.io => "rebase" \in o.result.io
            /\ (reached /\ in.merge_rc = 0)
                  => /\ o.result.status = "merged" /\ o.result.exc = None
                     /\ o.state.phase = "merged"
                     /\ o.state.active_task = s0.active_task
                     /\ o.state.worktree = s0.worktree
                     /\ o.worktrees = worktrees
                     /\ o.branches[t] = "merged"
                     /\ \A u \in Tasks \ {t} : o.branches[u] = branches[u]
                     /\ o.tracker = tracker
            /\ (reached /\ in.merge_rc # 0)
                  => /\ o.result.status = "error" /\ o.result.exc = None
                     /\ "merge_abort" \in o.result.io
                     /\ o.state = state
                     /\ o.session_file = session_file
                     /\ o.branches[t] = "merged" => branches[t] = "merged"
                     /\ o.worktrees = worktrees

\* The active task's branch was merged: phase merged, the task still active
\* and its worktree and branch still there.
C13_Witness ==
    \E t \in Tasks :
        /\ state.active_task = t
        /\ state.phase = "merged"
        /\ state.worktree = worktree_path(t)
        /\ state.last_action = "merge_task"
        /\ state.last_action_result = "ok"
        /\ worktree_path(t) \in worktrees
        /\ branches[t] = "merged"

\* ------------------------------------------------------------------ C14
\* C14: cleanup_task deletes the task's branch only when it is an ancestor of
\* the base checkout's HEAD; a branch with commits that were never merged is
\* kept and the result carries a warning.
C14_UnmergedBranchKept ==
    \A t \in Tasks : \A in \in CleanupInputs :
        LET o == cleanup_task(t, in)
        IN  (branches[t] \in {"ahead", "rebased"} /\ o.result.exc = None)
              => o.branches[t] = branches[t] /\ o.result.warning

\* ------------------------------------------------------------------ C15
\* C15: recover_session on a stale session whose task's tracker status is
\* not in_progress returns stale / cleaned_up / "task no longer in_progress",
\* leaves the tracker as it is, and leaves active_task, phase and worktree
\* empty and both attempt counters unchanged.
C15_StaleNotInProgress ==
    \A in \in RecoverInputs :
        LET o == recover_session(in)
            t == state.active_task
        IN  (/\ session_file /\ t # None
             /\ is_stale(state.last_action_time)
             /\ tracker[t] # "in_progress")
              => /\ o.result.exc = None
                 /\ o.result.status = "stale"
                 /\ o.result.action = "cleaned_up"
                 /\ o.result.reason = "task no longer in_progress"
                 /\ o.result.task_id = t
                 /\ "br_update" \notin o.result.io
                 /\ o.tracker = tracker
                 /\ o.state.active_task = None
                 /\ o.state.phase = None
                 /\ o.state.worktree = None
                 /\ o.state.test_attempts = state.test_attempts
                 /\ o.state.review_attempts = state.review_attempts

\* A stale session on a blocked task with a counted test attempt, which
\* recover_session cleans up whatever the tracker answers.
C15_Witness ==
    \E t \in Tasks :
        /\ session_file /\ state.active_task = t
        /\ is_stale(state.last_action_time)
        /\ tracker[t] = "blocked"
        /\ state.test_attempts[t] > 0
        /\ \A in \in RecoverInputs :
              /\ recover_session(in).result.action = "cleaned_up"
              /\ recover_session(in).state.active_task = None
              /\ recover_session(in).state.test_attempts[t] > 0

\* ------------------------------------------------------------------ C16
\* C16: recover_session on a stale session whose task is in_progress in the
\* tracker and whose worktree path does not exist sets the tracker status to
\* open, then clears the session and returns stale / cleaned_up / "worktree
\* missing"; when the tracker update fails the session is not cleared.
C16_WorktreeMissing ==
    \A in \in RecoverInputs :
        LET o == recover_session(in)
            t == state.active_task
        IN  (/\ session_file /\ t # None
             /\ is_stale(state.last_action_time)
             /\ tracker[t] = "in_progress"
             /\ ~(state.worktree # None /\ state.worktree \in worktrees))
              => IF in.br_ok
                 THEN /\ o.result.status = "stale"
                      /\ o.result.action = "cleaned_up"
                      /\ o.result.reason = "worktree missing"
                      /\ o.tracker = [tracker EXCEPT ![t] = "open"]
                      /\ o.state.active_task = None
                      /\ o.state.phase = None
                      /\ o.state.worktree = None
                 ELSE /\ o.state.active_task = t
                      /\ o.state.phase = state.phase
                      /\ o.state.worktree = state.worktree
                      /\ o.tracker = tracker

\* C16 when the tracker answers the status lookup.
C16_WorktreeMissingLookedUp ==
    \A in \in RecoverInputs :
        LET o == recover_session(in)
            t == state.active_task
        IN  (/\ session_file /\ t # None
             /\ is_stale(state.last_action_time)
             /\ tracker[t] = "in_progress" /\ in.show_ok
             /\ ~(state.worktree # None /\ state.worktree \in worktrees))
              => IF in.br_ok
                 THEN /\ o.result.status = "stale"
                      /\ o.result.action = "cleaned_up"
                      /\ o.result.reason = "worktree missing"
                      /\ o.tracker = [tracker EXCEPT ![t] = "open"]
                      /\ o.state.active_task = None
                      /\ o.state.phase = None
                      /\ o.state.worktree = None
                 ELSE /\ o.result.exc = "BrError"
                      /\ o.state = state
                      /\ o.tracker = tracker

\* ------------------------------------------------------------------ C17
\* C17: recover_session on a stale session whose task is in_progress in the
\* tracker and whose worktree exists returns stale / resume with the task id,
\* worktree, last action and attempt counts, keeps active_task, phase and
\* worktree, and leaves the tracker as it is.
C17_StaleResume ==
    \A in \in RecoverInputs :
        LET o == recover_session(in)
            t == state.active_task
        IN  (/\ session_file /\ t # None
             /\ is_stale(state.last_action_time)
             /\ tracker[t] = "in_progress"
             /\ state.worktree # None /\ state.worktree \in worktrees)
              => /\ o.result.exc = None
                 /\ o.result.status = "stale"
                 /\ o.result.action = "resume"
                 /\ o.result.task_id = t
                 /\ o.result.worktree = state.worktree
                 /\ o.result.last_action = state.last_action
                 /\ o.result.attempt_counts =
                        [test_attempts |-> state.test_attempts,
                         review_attempts |-> state.review_attempts]
                 /\ o.state.active_task = t
                 /\ o.state.phase = state.phase
                 /\ o.state.worktree = state.worktree
                 /\ o.tracker = tracker

\* C17 when the tracker answers the status lookup.
C17_StaleResumeLookedUp ==
    \A in \in RecoverInputs :
        LET o == recover_session(in)
            t == state.active_task
        IN  (/\ session_file /\ t # None
             /\ is_stale(state.last_action_time)
             /\ tracker[t] = "in_progress" /\ in.show_ok
             /\ state.worktree # None /\ state.worktree \in worktrees)
              => /\ o.result.exc = None
                 /\ o.result.status = "stale"
                 /\ o.result.action = "resume"
                 /\ o.result.task_id = t
                 /\ o.result.worktree = state.worktree
                 /\ o.result.last_action = state.last_action
                 /\ o.result.attempt_counts =
                        [test_attempts |-> state.test_attempts,
                         review_attempts |-> state.review_attempts]
                 /\ o.state.active_task = t
                 /\ o.state.phase = state.phase
                 /\ o.state.worktree = state.worktree
                 /\ o.tracker = tracker

\* ------------------------------------------------------------------ C18
\* C18: recover_session on a session with an active task and less than the
\* staleness threshold elapsed since last_action_time returns active / resume
\* with the task id, the worktree path, the last action recorded before the
\* call and both attempt-count maps; it makes no tracker call and changes
\* nothing of the session but the three audit fields.
C18_FreshResume ==
    \A in \in RecoverInputs :
        LET o == recover_session(in)
            t == state.active_task
            time == state.last_action_time
        IN  (/\ session_file /\ t # None
             /\ time.kind = "aware"
             /\ now - time.at < STALE_SESSION_MINUTES)
              => /\ o.result.exc = None
                 /\ o.result.status = "active"
                 /\ o.result.action = "resume"
                 /\ o.result.task_id = t
                 /\ o.result.worktree = state.worktree
                 /\ o.result.last_action = state.last_action
                 /\ o.result.attempt_counts =
                        [test_attempts |-> state.test_attempts,
                         review_attempts |-> state.review_attempts]
                 /\ o.result.io = {}
                 /\ o.tracker = tracker
                 /\ o.state = [state EXCEPT
                                  !.last_action = o.state.last_action,
                                  !.last_action_result = o.state.last_action_result,
                                  !.last_action_time = o.state.last_action_time]
                 /\ o.worktrees = worktrees /\ o.branches = branches

\* A fresh session on a task with a counted test attempt, last touched by
\* run_tests, which recover_session resumes.
C18_Witness ==
    \E t \in Tasks :
        /\ session_file /\ state.active_task = t
        /\ state.last_action = "run_tests"
        /\ state.test_attempts[t] > 0
        /\ \A in \in RecoverInputs :
              /\ recover_session(in).result.status = "active"
              /\ recover_session(in).result.last_action = "run_tests"
              /\ recover_session(in).state.last_action = "recover_session"

\* ------------------------------------------------------------------ C19
\* C19: a session with an active task is classified stale if and only if
\* last_action_time is missing, is no timestamp, cannot be compared with the
\* current UTC time, or lies at least 30 minutes in the past; exactly 30
\* minutes is stale and anything less is active.
C19_Staleness ==
    \A in \in RecoverInputs :
        LET o == recover_session(in)
            time == state.last_action_time
            old == \/ time.kind \in {"none", "text", "naive"}
                   \/ (time.kind = "aware" /\ now - time.at >= 30)
            lookup_made == o.result.exc = "BrError" /\ "br_show" \in o.result.io
        IN  (session_file /\ state.active_task # None)
              => /\ old => (o.result.status = "stale" \/ lookup_made)
                 /\ ~old => o.result.status = "active"

\* A session exactly 30 minutes old, classified stale.
C19_Witness ==
    \E t \in Tasks :
        /\ session_file /\ state.active_task = t
        /\ state.last_action_time.kind = "aware"
        /\ now - state.last_action_time.at = 30
        /\ tracker[t] = "in_progress"
        /\ \A in \in RecoverInputs : recover_session(in).result.status # "active"
        /\ \E in \in RecoverInputs : recover_session(in).result.status = "stale"

\* ------------------------------------------------------------------ C20
\* C20: recover_session returns clean / none when there is no session file or
\* the session has no active task; it makes no tracker call, leaves
\* active_task empty and both attempt counters unchanged.
C20_Clean ==
    \A in \in RecoverInputs :
        LET o == recover_session(in)
            s0 == load_session
        IN  (~session_file \/ state.active_task = None)
              => /\ o.result.exc = None
                 /\ o.result.status = "clean"
                 /\ o.result.action = "none"
                 /\ o.result.io = {}
                 /\ o.tracker = tracker
                 /\ o.state.active_task = None
                 /\ o.state.test_attempts = s0.test_attempts
                 /\ o.state.review_attempts = s0.review_attempts

\* A session cleared after a counted test attempt, on which recover_session
\* reports clean.
C20_Witness ==
    /\ session_file /\ state.active_task = None
    /\ \E t \in Tasks : state.test_attempts[t] > 0
    /\ \A in \in RecoverInputs :
          /\ recover_session(in).result.status = "clean"
          /\ recover_session(in).state.test_attempts = state.test_attempts

\* A session 29 minutes old, classified active.
C19_JustFresh ==
    \E t \in Tasks :
        /\ session_file /\ state.active_task = t
        /\ state.last_action_time.kind = "aware"
        /\ now - state.last_action_time.at = 29
        /\ \A in \in RecoverInputs : recover_session(in).result.status = "active"

\* ------------------------------------------------------------------- C21
\* The audit logs a call may find: empty, or holding a record already.
Logs == {<<>>, <<Entry("start_task", "ok")>>}

\* C21: clearing the session through complete_task, abandon_task,
\* cleanup_task or either cleaned_up branch of recover_session empties
\* active_task, phase, worktree, last_review_status and
\* last_review_diff_hash, sets last_review_issues to the empty list, and
\* leaves test_attempts, review_attempts and every record the audit log
\* already holds as they were.
C21_ClearFrame ==
    LET Cleared(o) ==
            /\ o.state.active_task = None
            /\ o.state.phase = None
            /\ o.state.worktree = None
            /\ o.state.last_review_status = None
            /\ o.state.last_review_diff_hash = None
            /\ o.state.last_review_issues = <<>>
            /\ o.state.test_attempts = load_session.test_attempts
            /\ o.state.review_attempts = load_session.review_attempts
            /\ \A log \in Logs :
                  /\ Len(append(log, o.appended)) >= Len(log)
                  /\ SubSeq(append(log, o.appended), 1, Len(log)) = log
    IN  /\ \A t \in Tasks, in \in CompleteInputs :
              complete_task(t, in).result.status = "ok"
                  => Cleared(complete_task(t, in))
        /\ \A t \in Tasks, in \in AbandonInputs :
              abandon_task(t, in).result.status = "ok"
                  => Cleared(abandon_task(t, in))
        /\ \A t \in Tasks, in \in CleanupInputs :
              cleanup_task(t, in).result.status = "cleaned"
                  => Cleared(cleanup_task(t, in))
        /\ \A in \in RecoverInputs :
              recover_session(in).result.action = "cleaned_up"
                  => Cleared(recover_session(in))

\* A session with counted test and review attempts and a stored rejection,
\* stale and without its worktree, which complete_task, abandon_task,
\* cleanup_task and recover_session all clear.
C21_Witness ==
    \E t \in Tasks :
        /\ session_file /\ state.active_task = t
        /\ state.test_attempts[t] > 0 /\ state.review_attempts[t] > 0
        /\ state.last_review_status = "REJECTED"
        /\ state.last_review_issues # <<>>
        /\ state.last_review_diff_hash # None
        /\ state.phase # None /\ state.worktree # None
        /\ tracker[t] = "in_progress"
        /\ complete_task(t, AllOk).result.status = "ok"
        /\ abandon_task(t, AllOk).result.status = "ok"
        /\ cleanup_task(t, AllOk).result.status = "cleaned"
        /\ recover_session(AllOk).result.reason = "worktree missing"

\* The same kind of session, cleared by recover_session because its task is
\* no longer in progress.
C21_NotInProgress ==
    \E t \in Tasks :
        /\ session_file /\ state.active_task = t
        /\ state.test_attempts[t] > 0 /\ state.review_attempts[t] > 0
        /\ state.last_review_issues # <<>>
        /\ recover_session(AllOk).result.reason = "task no longer in_progress"

\* A session cleared by abandon_task with its counted attempts in place.
C21_Abandoned ==
    /\ session_file /\ state.active_task = None
    /\ state.last_action = "abandon_task"
    /\ \E t \in Tasks : state.test_attempts[t] > 0 /\ state.review_attempts[t] > 0

\* ------------------------------------------------------------------- C22
\* C22: each run_tests call, escalated or not, raises test_attempts of the
\* active task id by exactly 1 and leaves the test_attempts of every other
\* id and all review_attempts as they were; increment_test_attempts and
\* increment_review_attempts yield the previous count plus 1, which is 1 for
\* an id not counted before.
C22_CountsByOne ==
    LET s0 == load_session
        id == ActiveId(s0)
    IN  /\ \A in \in TestInputs :
              LET o == run_tests(in)
              IN  /\ o.session_file
                  /\ o.state.test_attempts[id] = s0.test_attempts[id] + 1
                  /\ \A t \in Ids \ {id} :
                        o.state.test_attempts[t] = s0.test_attempts[t]
                  /\ o.state.review_attempts = s0.review_attempts
                  /\ o.result.attempt = s0.test_attempts[id] + 1
        /\ \A t \in Ids :
              LET st == increment_test_attempts(s0, t)
                  sr == increment_review_attempts(s0, t)
              IN  /\ st.test_attempts[t] = s0.test_attempts[t] + 1
                  /\ sr.review_attempts[t] = s0.review_attempts[t] + 1
                  /\ s0.test_attempts[t] = 0 => st.test_attempts[t] = 1
                  /\ s0.review_attempts[t] = 0 => sr.review_attempts[t] = 1
                  /\ \A u \in Ids \ {t} :
                        /\ st.test_attempts[u] = s0.test_attempts[u]
                        /\ sr.review_attempts[u] = s0.review_attempts[u]
                  /\ st.review_attempts = s0.review_attempts
                  /\ sr.test_attempts = s0.test_attempts

\* run_tests has just escalated on one task, at a count past the threshold,
\* while another task keeps the single attempt counted for it.
C22_Witness ==
    \E t \in Tasks : \E u \in Tasks \ {t} :
        /\ state.active_task = t
        /\ state.last_action = "run_tests"
        /\ state.last_action_result = "escalated"
        /\ state.test_attempts[t] = config.max_test_attempts + 1
        /\ state.test_attempts[u] = 1

\* ------------------------------------------------------------------- C23
\* One audit step of the call that returned result: one record appended,
\* and the three last_action fields set to the call's tool name, status and
\* time.
OneAuditStep(o) ==
    /\ Len(o.appended) = 1
    /\ o.appended[1].tool = o.result.tool
    /\ o.appended[1].timestamp = now
    /\ o.session_file
    /\ o.state.last_action = o.result.tool
    /\ o.state.last_action_result = o.appended[1].status
    /\ o.state.last_action_time = Time("aware", now)

\* C23: every tool call that returns a result to the agent, an error,
\* rejection or conflict result included, has performed exactly one audit
\* step: one record appended to the audit log, and last_action,
\* last_action_result and last_action_time set to the call's tool name,
\* status and time.
C23_OneAuditStep ==
    /\ \A t \in Tasks : \A in \in MergeInputsHere(t) :
          merge_task(t, in).result.exc = None => OneAuditStep(merge_task(t, in))
    /\ \A t \in Tasks, in \in StartInputs :
          start_task(t, in).result.exc = None => OneAuditStep(start_task(t, in))
    /\ \A t \in Tasks, in \in CleanupInputs :
          cleanup_task(t, in).result.exc = None => OneAuditStep(cleanup_task(t, in))
    /\ \A t \in Tasks, in \in CompleteInputs :
          complete_task(t, in).result.exc = None => OneAuditStep(complete_task(t, in))

\* What the code does: cleanup_task and complete_task, and merge_task when it
\* reports a conflict or a merge, perform one audit step; merge_task
\* returning an error result performs none; start_task performs one of its
\* own after the one of get_task_context.
C23_AuditStepsTaken ==
    /\ \A t \in Tasks : \A in \in MergeInputsHere(t) :
          LET o == merge_task(t, in)
          IN  /\ o.result.status \in {"conflict", "merged"} => OneAuditStep(o)
              /\ o.result.status = "error"
                    => o.appended = <<>> /\ o.state = state
                                        /\ o.session_file = session_file
    /\ \A t \in Tasks, in \in StartInputs :
          LET o == start_task(t, in)
          IN  o.result.exc = None
                => /\ o.appended[Len(o.appended)] = Entry("start_task", "ok")
                   /\ Len(o.appended) = IF in.context_ok THEN 2 ELSE 1
                   /\ o.state.last_action = "start_task"
    /\ \A t \in Tasks, in \in CleanupInputs :
          cleanup_task(t, in).result.exc = None => OneAuditStep(cleanup_task(t, in))
    /\ \A t \in Tasks, in \in CompleteInputs :
          complete_task(t, in).result.exc = None => OneAuditStep(complete_task(t, in))

\* A rebased task branch whose merge into the base branch fails: merge_task
\* returns an error result.
C23_MergeFails ==
    \E t \in Tasks :
        /\ worktree_path(t) \in worktrees
        /\ \E in \in MergeInputsHere(t) :
              /\ merge_task(t, in).result.status = "error"
              /\ "merge" \in merge_task(t, in).result.io

\* ------------------------------------------------------------------- C24
\* recover_session reaches the tracker lookup: the session holds a task and
\* is stale.
LooksUp == session_file /\ state.active_task # None /\ is_stale(state.last_action_time)

\* C24: a non-zero exit of the task tracker during a tool call reaches the
\* caller as BrError and is never swallowed; a tracker failure while
\* recover_session looks up a stale task's status does not clear the
\* session.
C24_TrackerFailureSurfaced ==
    /\ \A in \in RecoverInputs :
          (LooksUp /\ ~in.show_ok)
              => /\ recover_session(in).result.exc = "BrError"
                 /\ recover_session(in).state.active_task = state.active_task
    /\ \A in \in RecoverInputs :
          (LooksUp /\ in.show_ok /\ ~in.br_ok
                   /\ "br_update" \in recover_session(in).result.io)
              => /\ recover_session(in).result.exc = "BrError"
                 /\ recover_session(in).state.active_task = state.active_task
    /\ \A t \in Tasks, in \in StartInputs :
          ~in.br_ok => start_task(t, in).result.exc = "BrError"
    /\ \A in \in TestInputs :
          (~in.br_ok /\ "br_update" \in run_tests(in).result.io)
              => run_tests(in).result.exc = "BrError"

\* What the code does: the failures of br update reach the caller as BrError
\* and leave the session's task in place, while a failed br show is taken
\* for the status unknown, and the session is cleared.
C24_LookupFailureSwallowed ==
    /\ \A in \in RecoverInputs :
          (LooksUp /\ ~in.show_ok)
              => /\ recover_session(in).result.exc = None
                 /\ recover_session(in).result.action = "cleaned_up"
                 /\ recover_session(in).state.active_task = None
    /\ \A in \in RecoverInputs :
          (LooksUp /\ in.show_ok /\ ~in.br_ok
                   /\ "br_update" \in recover_session(in).result.io)
              => /\ recover_session(in).result.exc = "BrError"
                 /\ recover_session(in).state.active_task = state.active_task
    /\ \A t \in Tasks, in \in StartInputs :
          ~in.br_ok => start_task(t, in).result.exc = "BrError"
    /\ \A in \in TestInputs :
          (~in.br_ok /\ "br_update" \in run_tests(in).result.io)
              => run_tests(in).result.exc = "BrError"

\* A stale session whose task is in progress with its worktree in place:
\* with the lookup answered recover_session would resume it.
C24_StaleInProgress ==
    \E t \in Tasks :
        /\ LooksUp /\ state.active_task = t
        /\ tracker[t] = "in_progress"
        /\ recover_session(AllOk).result.action = "resume"
        /\ recover_session([AllOk EXCEPT !.show_ok = FALSE]).result.action
              = "cleaned_up"

\* ------------------------------------------------------------------- C25
\* The number of places of list that hold x
Count(list, x) == Cardinality({i \in 1..Len(list) : list[i] = x})

\* C25: whatever has changed and whatever the request, no file whose name or
\* extension is on the deny-list or whose path has a .ssh or .gnupg segment
\* ends up staged, by stage_all (also when the file lies in an untracked
\* directory listed as one entry) or by explicit path, and every excluded
\* candidate path produces one warning.
C25_NothingSensitiveStaged ==
    /\ \A f \in stage_result.files : ~_is_dangerous(f)
    /\ \A i \in 1..Len(stage_result.candidates) :
          LET p == stage_result.candidates[i]
          IN  _is_dangerous(p)
                => Count(stage_result.warnings, p) = Count(stage_result.candidates, p)

\* What the code does: no candidate path on the deny-list is handed to
\* git add, each such candidate makes one warning, and a sensitive file is
\* staged only from beneath a directory that was a candidate.
C25_CandidatesScreened ==
    /\ \A i \in 1..Len(stage_result.staged) : ~_is_dangerous(stage_result.staged[i])
    /\ stage_result.status = "staged"
          => Len(stage_result.staged) + Len(stage_result.warnings)
                = Len(stage_result.candidates)
    /\ \A i \in 1..Len(stage_result.candidates) :
          LET p == stage_result.candidates[i]
          IN  /\ _is_dangerous(p)
                    => Count(stage_result.warnings, p)
                          = Count(stage_result.candidates, p)
              /\ ~_is_dangerous(p) => Count(stage_result.warnings, p) = 0
    /\ \A f \in stage_result.files :
          _is_dangerous(f)
              => \E i \in 1..Len(stage_result.staged) :
                    /\ Beneath(stage_result.staged[i], f)
                    /\ stage_result.staged[i] # f

\* stage_all with newdir/ untracked and newdir/.env in it: the directory is
\* the candidate, and .env is staged without a warning.
C25_UntrackedDirectory ==
    /\ NewDir \in changed.untracked /\ NewEnv \in changed.files
    /\ stage_result.status = "staged"
    /\ stage_result.stage_all
    /\ NewDir \in {stage_result.staged[i] : i \in 1..Len(stage_result.staged)}
    /\ NewEnv \in stage_result.files
    /\ stage_result.warnings = <<>>

\* .env and server.pem changed and asked for: both excluded with a warning
\* each, and app.py staged.
C25_Excluded ==
    /\ stage_result.status = "staged"
    /\ stage_result.candidates = <<DotEnv, AppPy>>
    /\ stage_result.warnings = <<DotEnv>>
    /\ stage_result.files = {AppPy}

\* ------------------------------------------------------------------- C26
\* Every <task> element of the plan document has an issue in the tracker.
Imported(doc) ==
    \A k \in 1..Len(doc.tasks) :
        \E i \in 1..Len(beads.items) :
            /\ beads.items[i].plan_id = doc.id
            /\ beads.items[i].task_index = k - 1

\* The phase directory holds plan documents, each with tasks, all imported.
AllImported ==
    /\ phase_dir # <<>>
    /\ \A i \in 1..Len(phase_dir) :
          phase_dir[i].tasks # <<>> /\ Imported(phase_dir[i])

\* the import calls during which every collaborator answers
Answered == {in \in ImportInputs : in.components /\ in.fails = "none"}

\* C26: import_gsd_plan is idempotent: when the plan documents are
\* unchanged and their tasks all remain listed, a further call for the phase
\* creates no task and no dependency edge and returns the already-imported
\* notice, also for plans whose task elements declare their own labels.
C26_Idempotent ==
    \A in \in Answered :
        AllImported
            => /\ import_gsd_plan(in).beads = beads
               /\ import_gsd_plan(in).result.status = "already_imported"

\* What the code does: the further call changes nothing when every plan has
\* a listed issue carrying its plan:<id> label.
C26_IdempotentWhenMarked ==
    \A in \in Answered :
        (AllImported
           /\ \A i \in 1..Len(phase_dir) :
                 phase_dir[i].id \in _existing_plan_ids(beads.items))
            => /\ import_gsd_plan(in).beads = beads
               /\ import_gsd_plan(in).result.status = "already_imported"
               /\ import_gsd_plan(in).result.skipped_plans = plan_ids(phase_dir)

\* A plan whose task elements all declare labels of their own has been
\* imported, and the next call would create its tasks once more.
C26_OwnLabels ==
    /\ AllImported
    /\ import_result = "imported"
    /\ \E i \in 1..Len(phase_dir) :
          /\ \A k \in 1..Len(phase_dir[i].tasks) :
                phase_dir[i].tasks[k].labels # None
          /\ phase_dir[i].id \notin _existing_plan_ids(beads.items)
    /\ \A in \in Answered :
          /\ import_gsd_plan(in).result.status = "imported"
          /\ Len(import_gsd_plan(in).beads.items) > Len(beads.items)

\* Two plans imported, their tasks carrying the plan marker, and imported
\* again: the notice came back.
C26_Noticed ==
    /\ AllImported /\ Len(phase_dir) = 2
    /\ import_result = "already_imported"
    /\ Len(beads.items) >= 3

\* ------------------------------------------------------------------- C27
\* C27: after import_gsd_plan imports a plan P with at least one task, the
\* first task of P depends on the last task of every plan P's header
\* declares as a dependency, whether that plan is imported in the same call
\* or was imported by an earlier call and is skipped now.
C27_InterPlanEdges ==
    \A in \in Answered :
        LET o == import_gsd_plan(in)
        IN  o.result.status = "imported"
              => \A i \in 1..Len(phase_dir) :
                    LET mine == issue_ids(o.result.tasks_created, phase_dir[i].id)
                    IN  mine # <<>>
                          => \A d \in phase_dir[i].depends_on :
                                LET theirs == issue_ids(o.beads.items, d)
                                IN  theirs # <<>>
                                      => <<mine[1], theirs[Len(theirs)]>>
                                            \in o.beads.deps

\* What the code does: the edge is added for every declared plan that the
\* same call imports.
C27_SameCallEdges ==
    \A in \in Answered :
        LET o == import_gsd_plan(in)
        IN  o.result.status = "imported"
              => \A i \in 1..Len(phase_dir) :
                    LET mine == issue_ids(o.result.tasks_created, phase_dir[i].id)
                    IN  mine # <<>>
                          => \A d \in phase_dir[i].depends_on :
                                LET theirs == issue_ids(o.result.tasks_created, d)
                                IN  theirs # <<>>
                                      => <<mine[1], theirs[Len(theirs)]>>
                                            \in o.beads.deps

\* Plan 1 is imported and marked; plan 2, written since, declares plan 1 as
\* its dependency, and the call that imports it adds no edge to plan 1.
C27_EarlierImport ==
    /\ Len(phase_dir) = 2
    /\ 1 \in _existing_plan_ids(beads.items)
    /\ 2 \notin _existing_plan_ids(beads.items)
    /\ issue_ids(beads.items, 2) = <<>>
    /\ phase_dir[2].depends_on = {1} /\ phase_dir[2].tasks # <<>>
    /\ \A in \in Answered :
          /\ import_gsd_plan(in).result.status = "imported"
          /\ import_gsd_plan(in).result.skipped_plans = <<1>>
          /\ import_gsd_plan(in).beads.deps \ beads.deps
                \subseteq {e \in Nat \X Nat :
                              e[1] > Len(beads.items) /\ e[2] > Len(beads.items)}

\* Two plans imported by one call, the second declaring the first: the
\* first task of the second is blocked by the last task of the first.
C27_SameCall ==
    /\ Len(phase_dir) = 2 /\ phase_dir[2].depends_on = {1}
    /\ import_result = "imported"
    /\ LET ones == issue_ids(beads.items, 1)
           twos == issue_ids(beads.items, 2)
       IN  /\ Len(ones) = 2 /\ twos # <<>>
           /\ <<twos[1], ones[2]>> \in beads.deps

\* ------------------------------------------------------------------- C28
\* C28: for every plan imported with tasks t1..tn in document order,
\* import_gsd_plan creates exactly one tracked task per list entry and
\* submits exactly the n-1 intra-plan edges, t(i+1) blocked by t(i), and no
\* other edge between tasks of the same plan.
C28_OneTaskPerEntry ==
    \A in \in Answered :
        LET o == import_gsd_plan(in)
            new_items == SubSeq(o.beads.items, Len(beads.items) + 1,
                                Len(o.beads.items))
            new_deps == o.beads.deps \ beads.deps
        IN  o.result.status = "imported"
              => /\ new_items = o.result.tasks_created
                 /\ \A i, j \in 1..Len(o.beads.items) :
                       o.beads.items[i].id = o.beads.items[j].id => i = j
                 /\ \A i \in 1..Len(phase_dir) :
                       LET doc == phase_dir[i]
                           mine == issue_ids(new_items, doc.id)
                           n == Len(doc.tasks)
                           chain == {<<mine[k + 1], mine[k]>> : k \in 1..(Len(mine) - 1)}
                           ids == {mine[k] : k \in 1..Len(mine)}
                           submitted ==
                               {k \in 1..Len(o.result.dependencies) :
                                   /\ o.result.dependencies[k].blocked \in ids
                                   /\ o.result.dependencies[k].blocker \in ids}
                       IN  IF doc.id \in _existing_plan_ids(beads.items)
                           THEN mine = <<>>
                           ELSE /\ Len(mine) = n
                                /\ \A k \in 1..Len(mine) :
                                      \E x \in 1..Len(new_items) :
                                          /\ new_items[x].id = mine[k]
                                          /\ new_items[x].task_index = k - 1
                                /\ {e \in new_deps : e[1] \in ids /\ e[2] \in ids}
                                      = chain
                                /\ Cardinality(chain) = (IF n = 0 THEN 0 ELSE n - 1)
                                /\ Cardinality(submitted)
                                      = (IF n = 0 THEN 0 ELSE n - 1)
                                /\ \A k \in submitted :
                                      o.result.dependencies[k].type = "intra-plan"

\* A plan of as many tasks as a document may hold has been imported: its
\* issues are in the tracker, each blocked by the one before.
C28_Witness ==
    /\ import_result = "imported"
    /\ \E i \in 1..Len(phase_dir) :
          LET mine == issue_ids(beads.items, phase_dir[i].id)
          IN  /\ Len(phase_dir[i].tasks) = MaxEntries
              /\ Len(mine) = MaxEntries
              /\ \A k \in 1..(MaxEntries - 1) : <<mine[k + 1], mine[k]>> \in beads.deps

\* C28, with the plan's own header taken into account: one tracked task per
\* list entry and the n-1 intra-plan edges; between tasks of the same plan
\* there is no other edge unless the header of the plan lists the plan
\* itself, and then the one further edge is the inter-plan edge from its
\* first task to its last.
C28_OneTaskPerEntryOwnEdge ==
    \A in \in Answered :
        LET o == import_gsd_plan(in)
            new_items == SubSeq(o.beads.items, Len(beads.items) + 1,
                                Len(o.beads.items))
            new_deps == o.beads.deps \ beads.deps
        IN  o.result.status = "imported"
              => /\ new_items = o.result.tasks_created
                 /\ \A i, j \in 1..Len(o.beads.items) :
                       o.beads.items[i].id = o.beads.items[j].id => i = j
                 /\ \A i \in 1..Len(phase_dir) :
                       LET doc == phase_dir[i]
                           mine == issue_ids(new_items, doc.id)
                           n == Len(doc.tasks)
                           chain == {<<mine[k + 1], mine[k]>> : k \in 1..(Len(mine) - 1)}
                           own == IF doc.id \in doc.depends_on /\ mine # <<>>
                                  THEN {<<mine[1], mine[Len(mine)]>>}
                                  ELSE {}
                           ids == {mine[k] : k \in 1..Len(mine)}
                           submitted ==
                               {k \in 1..Len(o.result.dependencies) :
                                   /\ o.result.dependencies[k].blocked \in ids
                                   /\ o.result.dependencies[k].blocker \in ids}
                       IN  IF doc.id \in _existing_plan_ids(beads.items)
                           THEN mine = <<>>
                           ELSE /\ Len(mine) = n
                                /\ \A k \in 1..Len(mine) :
                                      \E x \in 1..Len(new_items) :
                                          /\ new_items[x].id = mine[k]
                                          /\ new_items[x].task_index = k - 1
                                /\ {e \in new_deps : e[1] \in ids /\ e[2] \in ids}
                                      = chain \cup own
                                /\ Cardinality(chain) = (IF n = 0 THEN 0 ELSE n - 1)
                                /\ Cardinality(submitted)
                                      = Cardinality(chain) + Cardinality(own)
                                /\ \A k \in submitted :
                                      LET d == o.result.dependencies[k]
                                      IN  IF <<d.blocked, d.blocker>> \in chain
                                          THEN d.type = "intra-plan"
                                          ELSE d.type = "inter-plan"

\* A plan whose header lists the plan itself has been imported with as many
\* tasks as a document may hold: its issues are chained, and the first is
\* blocked by the last.
C28_OwnPlanDeclared ==
    /\ import_result = "imported"
    /\ \E i \in 1..Len(phase_dir) :
          LET mine == issue_ids(beads.items, phase_dir[i].id)
          IN  /\ phase_dir[i].id \in phase_dir[i].depends_on
              /\ Len(phase_dir[i].tasks) = MaxEntries
              /\ Len(mine) = MaxEntries
              /\ \A k \in 1..(MaxEntries - 1) : <<mine[k + 1], mine[k]>> \in beads.deps
              /\ <<mine[1], mine[MaxEntries]>> \in beads.deps

\* ------------------------------------------------------------------- C29
\* The dependency graph restricted to the ids of the task list
Known == DOMAIN adj(graph)
Edge(x, y) ==
    /\ x \in Known /\ y \in Known
    /\ \E i \in 1..Len(adj(graph)[x]) : adj(graph)[x][i] = y

\* The simple directed cycles of the graph, each as the list of its nodes
\* from any of them on.
SimpleCycles ==
    {c \in UNION {[1..n -> Known] : n \in 1..Cardinality(Known)} :
        /\ \A i, j \in 1..Len(c) : c[i] = c[j] => i = j
        /\ \A i \in 1..(Len(c) - 1) : Edge(c[i], c[i + 1])
        /\ Edge(c[Len(c)], c[1])}

Nodes(c) == {c[i] : i \in 1..Len(c)}

\* C29: detect_cycles returns an empty list if and only if the dependency
\* graph restricted to known task ids has no directed cycle; a two-task
\* mutual dependency yields a reported cycle containing both ids, and a task
\* depending on itself yields a reported cycle containing that id.
C29_CyclesDetected ==
    cycles.returned
        => /\ (cycles.found = <<>>) <=> (SimpleCycles = {})
           /\ \A x, y \in Known :
                 \* x = y: a task depending on itself
                 (Edge(x, y) /\ Edge(y, x))
                     => \E i \in 1..Len(cycles.found) : {x, y} \subseteq Nodes(cycles.found[i])

\* Three tasks with a mutual dependency of two of them, a dependency of the
\* third on itself and one on an id no task has: detect_cycles has reported
\* cycles.
C29_Witness ==
    /\ cycles.returned /\ cycles.found # <<>>
    /\ Len(graph) = 3
    /\ \E x, y, z \in Known :
          /\ x # y /\ Edge(x, y) /\ Edge(y, x) /\ z \notin {x, y} /\ Edge(z, z)
          /\ \E i \in 1..Len(cycles.found) : Nodes(cycles.found[i]) = {x, y}
          /\ \E i \in 1..Len(cycles.found) : Nodes(cycles.found[i]) = {z}
    /\ \E i \in 1..Len(graph) :
          \E k \in 1..Len(graph[i].dependencies) : graph[i].dependencies[k] = "Z"

\* A task list without a cycle but with dependencies: nothing is reported.
C29_Acyclic ==
    /\ cycles.returned /\ cycles.found = <<>>
    /\ \E x, y, z \in Known : Edge(x, y) /\ Edge(y, z) /\ Edge(x, z)

\* ------------------------------------------------------------------- C30
\* C30: every directed cycle of the dependency graph is reported at least
\* once: for every simple cycle some returned cycle consists of exactly
\* that cycle's nodes.
C30_EveryCycleReported ==
    cycles.returned
        => \A c \in SimpleCycles :
              \E i \in 1..Len(cycles.found) : Nodes(cycles.found[i]) = Nodes(c)

\* What the code does: every list it returns is a simple cycle of the graph,
\* closed by its first id.
C30_ReportedAreCycles ==
    cycles.returned
        => \A i \in 1..Len(cycles.found) :
              LET c == cycles.found[i]
              IN  /\ Len(c) >= 2 /\ c[1] = c[Len(c)]
                  /\ \A k \in 1..(Len(c) - 1) : Edge(c[k], c[k + 1])
                  /\ SubSeq(c, 1, Len(c) - 1) \in SimpleCycles

\* A depends on B and C, B on C, C on A: the cycle through A, B and C is
\* reported, the cycle of A and C is not.
C30_SharedNodes ==
    /\ cycles.returned
    /\ \E c \in SimpleCycles :
          /\ Len(c) = 2
          /\ \A i \in 1..Len(cycles.found) : Nodes(cycles.found[i]) # Nodes(c)
    /\ \E i \in 1..Len(cycles.found) : Cardinality(Nodes(cycles.found[i])) = 3

\* ------------------------------------------------------------------- C31
\* the dependency entries of graph whose target no task has as its id, as
\* <<task position, position in its dependencies list>>
MissingEntries ==
    {e \in (1..Len(graph)) \X (1..MaxDeps + 1) :
        /\ e[2] <= Len(graph[e[1]].dependencies)
        /\ graph[e[1]].dependencies[e[2]] \notin known_ids(graph)}

\* the place of a missing entry among the missing entries, in task order
\* and within a task in the order of its dependencies list
Rank(e) ==
    Cardinality({d \in MissingEntries :
                    d[1] < e[1] \/ (d[1] = e[1] /\ d[2] <= e[2])})

\* C31: detect_orphans returns exactly one {task_id, missing_dep} record per
\* dependency entry whose target is absent from the known task ids, in task
\* order, and none for a dependency whose target is known; a task with k
\* missing dependencies contributes k records.
C31_OneRecordPerMissingEntry ==
    orphans.returned =>
        /\ Len(orphans.found) = Cardinality(MissingEntries)
        /\ \A e \in MissingEntries :
               orphans.found[Rank(e)] =
                   [task_id |-> graph[e[1]].id,
                    missing_dep |-> graph[e[1]].dependencies[e[2]]]

\* detect_orphans has returned two records for one task and one record for a
\* later task, which also depends on a known task.
C31_Witness ==
    /\ orphans.returned
    /\ Len(orphans.found) = 3
    /\ orphans.found[1].task_id = "A"
    /\ orphans.found[2].task_id = "A"
    /\ orphans.found[3].task_id = "B"
    /\ Len(graph[2].dependencies) = 2

\* ------------------------------------------------------------------- C32
\* C32: with fixed thresholds and a single agent, in every reachable state
\* review_attempts[t] <= max_review_attempts for every task t, and over the
\* whole history at most max_review_attempts reviewer calls and at most
\* max_test_attempts test-command executions were made for t.
C32_CallsBounded ==
    \A t \in Ids :
        /\ load_session.review_attempts[t] <= config.max_review_attempts
        /\ calls.reviewer[t] <= config.max_review_attempts
        /\ calls.test[t] <= config.max_test_attempts

\* A task has used up both budgets, has been started again after a cleared
\* session, and a further run_tests call for it has escalated: test_attempts
\* has grown past the threshold while the test runs have not.
C32_Witness ==
    \E t \in Tasks :
        /\ calls.test[t] = config.max_test_attempts
        /\ calls.reviewer[t] = config.max_review_attempts
        /\ load_session.test_attempts[t] > config.max_test_attempts
        /\ load_session.active_task = t
        /\ load_session.last_action = "start_task"

\* ------------------------------------------------------------------- C33
\* C33: in every state reachable by a single agent's tool calls, collaborator
\* failures included, a task that start_task marked in_progress in the
\* tracker and that no later call changed is the session's active_task; a
\* start_task whose worktree provisioning fails, and a start_task issued
\* while another task is active, leave no task in_progress that the session
\* does not record.
C33_InProgressIsActive ==
    \A t \in Tasks :
        tracker[t] = "in_progress" => load_session.active_task = t

\* start_task has marked a task in_progress and raised before it wrote the
\* session: recover_session finds nothing to recover.
C33_MarkedAndForgotten ==
    \E t \in Tasks :
        /\ tracker[t] = "in_progress"
        /\ ~session_file
        /\ recover_session(AllOk).result.status = "clean"

\* start_task was called for a second task while the first was active: both
\* are in_progress and the session records the second only.
C33_TwoInProgress ==
    /\ \A t \in Tasks : tracker[t] = "in_progress"
    /\ load_session.active_task \in Tasks
    /\ load_session.last_action = "start_task"

\* ------------------------------------------------------------------- C34
\* C34: in every state reachable by tool calls the session's phase is one of
\* empty, working, merged, and active_task is empty if and only if phase is
\* empty and worktree is empty; phase = merged never occurs with an empty
\* active_task.
C34_ActiveFieldsConsistent ==
    LET s == load_session
    IN  /\ s.phase \in {None, "working", "merged"}
        /\ s.active_task = None <=> (s.phase = None /\ s.worktree = None)

\* What the code keeps: the phase is one of the three, worktree is empty
\* exactly when active_task is, and a session with a task has a phase.
C34_PhaseOfThree ==
    LET s == load_session
    IN  /\ s.phase \in {None, "working", "merged"}
        /\ s.active_task = None <=> s.worktree = None
        /\ s.active_task # None => s.phase # None

\* merge_task has merged the branch of a task the session no longer holds.
C34_MergedWithoutTask ==
    /\ load_session.active_task = None
    /\ load_session.phase = "merged"
    /\ load_session.last_action = "merge_task"

\* ------------------------------------------------------------------- C35
\* the session fields of the active task
ActiveFields(s) ==
    <<s.active_task, s.phase, s.worktree, s.last_review_status,
      s.last_review_diff_hash, s.last_review_issues>>

\* C35: complete_task, abandon_task, cleanup_task and merge_task called with
\* a task_id different from the session's active_task leave the active
\* task's session fields (active_task, phase, worktree, last_review_status,
\* last_review_diff_hash, last_review_issues) unchanged.
C35_OtherTaskFrame ==
    \A task_id \in Ids :
        (load_session.active_task # None /\ task_id # load_session.active_task)
            => /\ \A in \in CompleteInputs :
                      ActiveFields(complete_task(task_id, in).state)
                          = ActiveFields(load_session)
               /\ \A in \in AbandonInputs :
                      ActiveFields(abandon_task(task_id, in).state)
                          = ActiveFields(load_session)
               /\ \A in \in CleanupInputs :
                      ActiveFields(cleanup_task(task_id, in).state)
                          = ActiveFields(load_session)
               /\ \A in \in MergeInputsHere(task_id) :
                      ActiveFields(merge_task(task_id, in).state)
                          = ActiveFields(load_session)

\* A session with an active task while the worktree of the other task is in
\* place: each of the four tools, called for the other task with every
\* collaborator answering, changes the active task's fields.
C35_OtherTaskCalled ==
    \E t \in Tasks, u \in Tasks :
        /\ t # u
        /\ load_session.active_task = t
        /\ load_session.phase = "working"
        /\ worktree_path(u) \in worktrees
        /\ complete_task(u, AllOk).state.active_task = None
        /\ abandon_task(u, AllOk).state.active_task = None
        /\ cleanup_task(u, AllOk).state.active_task = None
        /\ \E in \in MergeInputsHere(u) :
               /\ merge_task(u, in).result.status = "merged"
               /\ merge_task(u, in).state.active_task = t
               /\ merge_task(u, in).state.phase = "merged"

\* ------------------------------------------------------------------- C36
\* The stored verdict is APPROVED and was stored while a task other than the
\* active one was active.
ApprovedForAnother ==
    /\ load_session.last_review_status = "APPROVED"
    /\ load_session.active_task \in Tasks
    /\ calls.reviewed \in Tasks \ {load_session.active_task}

\* C36: review state is scoped to the task it was recorded for: an APPROVED
\* verdict and fingerprint stored while task A was active never let
\* attempt_commit commit, and never trigger the unchanged-diff short-circuit,
\* while a different task B is the active task, also when start_task(B) is
\* called without first completing, abandoning or cleaning up A.
C36_ReviewScoped ==
    ApprovedForAnother
        => /\ \A in \in CommitInputs :
                  attempt_commit(in).result.status # "committed"
           /\ \A in \in ReviewInputs :
                  ~request_code_review(in).result.unchanged

\* What the code keeps: once complete_task has cleared the session between
\* the two tasks no verdict is stored, so nothing of the first task's review
\* reaches the second.
C36_ClearedBetween ==
    (/\ load_session.active_task \in Tasks
     /\ calls.reviewed \in Tasks \ {load_session.active_task}
     /\ load_session.last_review_status = None)
        => /\ \A in \in CommitInputs :
                  attempt_commit(in).result.status # "committed"
           /\ \A in \in ReviewInputs :
                  ~request_code_review(in).result.unchanged

\* start_task(B) was called while A was active with an approved review, and
\* the staged diff of B has the fingerprint of the diff approved for A:
\* attempt_commit commits it and request_code_review answers unchanged.
C36_CarriedOver ==
    /\ ApprovedForAnother
    /\ load_session.last_action = "start_task"
    /\ attempt_commit([check_rc |-> 0, commit_rc |-> 0]).result.status
          = "committed"
    /\ request_code_review(Happy).result.unchanged
    /\ request_code_review(Happy).result.status = "APPROVED"

\* ------------------------------------------------------------------- C37
\* the verdict stored by a reviewer call that has returned is in the session
VerdictStored ==
    /\ reviewing.seen # None
    /\ ~outstanding
    /\ load_session.last_review_diff_hash # None

\* C37: the fingerprint that a real review stores in last_review_diff_hash is
\* the fingerprint of exactly the diff text that was sent to the reviewer in
\* that call, even if the staging area changes while the reviewer call is
\* outstanding; hence a commit accepted by attempt_commit always contains a
\* diff that the reviewer saw and approved.
C37_FingerprintOfSentDiff ==
    /\ VerdictStored
          => load_session.last_review_diff_hash = Sha256(reviewing.seen)
    /\ \A in \in CommitInputs :
          (~outstanding /\ attempt_commit(in).result.status = "committed")
              => /\ load_session.last_review_status = "APPROVED"
                 /\ index = reviewing.seen

\* What the code keeps: a commit is accepted only for a staged diff whose
\* fingerprint is the stored one, under a stored verdict APPROVED.
C37_FingerprintOfStagedDiff ==
    \A in \in CommitInputs :
        (~outstanding /\ attempt_commit(in).result.status = "committed")
            => /\ load_session.last_review_status = "APPROVED"
               /\ load_session.last_review_diff_hash = Sha256(index)

\* The staging area changed while the reviewer call was outstanding: the
\* verdict APPROVED is stored with the fingerprint of a diff the reviewer
\* never saw, and attempt_commit commits that diff.
C37_ChangedWhileOutstanding ==
    /\ VerdictStored
    /\ load_session.last_action = "request_code_review"
    /\ load_session.last_review_status = "APPROVED"
    /\ index # reviewing.seen
    /\ index # ""
    /\ load_session.last_review_diff_hash = Sha256(index)
    /\ attempt_commit([check_rc |-> 0, commit_rc |-> 0]).result.status
          = "committed"

\* Nothing changed while the reviewer call was outstanding: the stored
\* fingerprint is the one of the diff sent.
C37_Undisturbed ==
    /\ VerdictStored
    /\ load_session.last_action = "request_code_review"
    /\ index = reviewing.seen
    /\ load_session.last_review_diff_hash = Sha256(reviewing.seen)

\* ------------------------------------------------------------------- C38
\* the last tool call was a recover_session call made at this very moment
JustRecovered ==
    /\ recovered.at = now
    /\ session_file
    /\ state.last_action = "recover_session"
    /\ state.last_action_time = Time("aware", now)

\* the session holds a task that is in_progress and whose worktree exists
Recoverable ==
    /\ session_file
    /\ state.active_task \in Tasks
    /\ tracker[state.active_task] = "in_progress"
    /\ state.worktree \in worktrees

\* C38: a recover_session call that returns status stale with action resume
\* makes the session fresh: a second recover_session call made immediately
\* afterwards returns status active with last_action = recover_session; and
\* no sequence of recover_session calls alone ever clears a session whose
\* task is in_progress and whose worktree exists.
C38_ResumeMakesFresh ==
    /\ (JustRecovered /\ recovered.status = "stale"
                      /\ recovered.action = "resume")
          => \A in \in RecoverInputs :
                 /\ recover_session(in).result.status = "active"
                 /\ recover_session(in).result.last_action = "recover_session"
    /\ Recoverable
          => \A in \in RecoverInputs :
                 recover_session(in).state.active_task = state.active_task

\* What the code keeps: the second call answers active, and a recoverable
\* session is kept by every call during which br show answers.
C38_ResumeMakesFreshLookedUp ==
    /\ (JustRecovered /\ recovered.status = "stale"
                      /\ recovered.action = "resume")
          => \A in \in RecoverInputs :
                 /\ recover_session(in).result.status = "active"
                 /\ recover_session(in).result.last_action = "recover_session"
    /\ Recoverable
          => \A in \in RecoverInputs :
                 in.show_ok
                     => recover_session(in).state.active_task = state.active_task

\* recover_session has just answered stale and resume.
C38_StaleResumed ==
    /\ JustRecovered
    /\ recovered.status = "stale"
    /\ recovered.action = "resume"
    /\ Recoverable
    /\ recover_session(AllOk).result.status = "active"

\* A stale recoverable session that a recover_session call clears when br
\* show fails.
C38_ClearedWhenLookupFails ==
    /\ Recoverable
    /\ is_stale(state.last_action_time)
    /\ recover_session([AllOk EXCEPT !.show_ok = FALSE]).state.active_task = None
    /\ recover_session([AllOk EXCEPT !.show_ok = FALSE]).result.action
          = "cleaned_up"

\* ------------------------------------------------------------------- C39
\* the issues the tracker b holds for element k of a plan document
IssuesFor(b, doc, k) ==
    {i \in 1..Len(b.items) :
        b.items[i].plan_id = doc.id /\ b.items[i].task_index = k - 1}

IssueOf(b, doc, k) == b.items[CHOOSE i \in IssuesFor(b, doc, k) : TRUE].id

\* Every task entry of every plan of the phase exists exactly once in the
\* tracker b, and every intra-plan and inter-plan edge is wired.
Complete(b) ==
    \A i \in 1..Len(phase_dir) :
        LET doc == phase_dir[i]
            n == Len(doc.tasks)
        IN  /\ \A k \in 1..n : Cardinality(IssuesFor(b, doc, k)) = 1
            /\ \A k \in 1..(n - 1) :
                  <<IssueOf(b, doc, k + 1), IssueOf(b, doc, k)>> \in b.deps
            /\ \A j \in 1..Len(phase_dir) :
                  LET dep == phase_dir[j]
                  IN  (dep.id \in doc.depends_on /\ n > 0 /\ dep.tasks # <<>>)
                        => <<IssueOf(b, doc, 1), IssueOf(b, dep, Len(dep.tasks))>>
                              \in b.deps

\* C39: if an import_gsd_plan call fails part-way (a tracker error after
\* some tasks of a plan were created or before its edges were wired) and
\* import_gsd_plan is called again until it returns without error, then
\* afterwards every task entry of every plan of the phase exists exactly
\* once in the tracker and every intra-plan and inter-plan edge is wired.
C39_RetryCompletes ==
    import_result = "raised"
        => \A in \in ImportInputs :
               import_gsd_plan(in).result.status \in {"imported", "already_imported"}
                   => Complete(import_gsd_plan(in).beads)

\* What the code keeps: a call that imports the whole phase into an empty
\* tracker without a failure leaves the tracker complete.
C39_FirstImportCompletes ==
    beads = NoBeads
        => \A in \in ImportInputs :
               import_gsd_plan(in).result.status = "imported"
                   => Complete(import_gsd_plan(in).beads)

\* The import of one plan of two tasks failed at br dep add: both issues
\* are in the tracker, marked with the plan, and no edge between them; the
\* next call answers already_imported and leaves the tracker as it is.
C39_EdgesNeverWired ==
    /\ import_result = "raised"
    /\ Len(phase_dir) = 1
    /\ phase_dir[1].depends_on = {}
    /\ Len(phase_dir[1].tasks) = 2
    /\ Len(beads.items) = 2
    /\ beads.deps = {}
    /\ \A in \in Answered :
          /\ import_gsd_plan(in).result.status = "already_imported"
          /\ import_gsd_plan(in).beads = beads

\* ------------------------------------------------------------------- C40
\* plan_deps of _parse_and_create_tasks: the depends_on list of every plan
\* of plan_files that has <task> elements; the header of a plan without
\* any is not read.
plan_deps(plan_files) ==
    [p \in {plan_files[i].id : i \in {i \in 1..Len(plan_files) :
                                          plan_files[i].tasks # <<>>}} |->
        (CHOOSE doc \in {plan_files[i] : i \in 1..Len(plan_files)} :
            doc.id = p).depends_on]

\* The plans of deps depend on one another in a circle: some plan reaches
\* itself along declared dependencies.
Circular(deps) ==
    \E n \in 1..Cardinality(DOMAIN deps) :
        \E path \in [1..n -> DOMAIN deps] :
            /\ \A i \in 1..(n - 1) : path[i + 1] \in deps[path[i]]
            /\ path[1] \in deps[path[n]]

\* The blockers of the edges submitted for task tid, in their order
RECURSIVE blockers_of(_, _)
blockers_of(dependencies, tid) ==
    IF dependencies = <<>> THEN <<>>
    ELSE (IF Head(dependencies).blocked = tid
          THEN <<Head(dependencies).blocker>> ELSE <<>>)
           \o blockers_of(Tail(dependencies), tid)

\* The tasks an import created, each with the dependencies submitted for it
created_tasks(result) ==
    [k \in 1..Len(result.tasks_created) |->
        [id |-> result.tasks_created[k].id,
         dependencies |-> blockers_of(result.dependencies,
                                      result.tasks_created[k].id)]]

\* The tasks of the tracker, each with the dependencies the tracker holds
tracked_tasks ==
    [k \in 1..Len(beads.items) |->
        [id |-> beads.items[k].id,
         dependencies |-> listing({e[2] : e \in {e \in beads.deps :
                                                  e[1] = beads.items[k].id}})]]

\* C40: when the dependency relation that the plan headers of one import
\* declare is acyclic, the intra-plan and inter-plan edges the import
\* submits are acyclic: detect_cycles over the created tasks returns the
\* empty list. A plan that declares a dependency on itself, and two plans
\* that depend on each other, produce a cycle among the tasks.
C40_CyclesFromPlansOnly ==
    \A in \in Answered :
        LET o == import_gsd_plan(in)
            todo == plans_in(phase_dir, PlanIds \ _existing_plan_ids(beads.items))
            deps == plan_deps(todo)
            found == detect_cycles(created_tasks(o.result))
        IN  o.result.status = "imported"
              => /\ ~Circular(deps) => found = <<>>
                 /\ (\E p \in DOMAIN deps : p \in deps[p]) => found # <<>>
                 /\ (\E p, q \in DOMAIN deps :
                        p # q /\ q \in deps[p] /\ p \in deps[q]) => found # <<>>

\* Two plans that declare each other have been imported by one call, each
\* with tasks: the first task of either is blocked by the last of the
\* other, and detect_cycles reports a cycle in the tracker.
C40_EachOther ==
    /\ import_result = "imported"
    /\ Len(phase_dir) = 2
    /\ phase_dir[1].id \in phase_dir[2].depends_on
    /\ phase_dir[2].id \in phase_dir[1].depends_on
    /\ LET ones == issue_ids(beads.items, phase_dir[1].id)
           twos == issue_ids(beads.items, phase_dir[2].id)
       IN  /\ ones # <<>> /\ twos # <<>>
           /\ <<ones[1], twos[Len(twos)]>> \in beads.deps
           /\ <<twos[1], ones[Len(ones)]>> \in beads.deps
    /\ detect_cycles(tracked_tasks) # <<>>
====
